---- MODULE Spec2Model ----
(***************************************************************************)
(* Validation engine of clean-sheet (src/utils/validation.ts): the three   *)
(* collections of a session, the handlers that replace them, and the       *)
(* validators that are re-run over them after every change.                *)
(*                                                                         *)
(* Rows hold JavaScript values.  A value is a record tagged by t:          *)
(*   undefined, null, boolean b, string s, number h (the number h/2, so    *)
(*   that 1.5 is representable and Number.isInteger is decidable), nan,    *)
(*   array a (a sequence of values), object o (a sequence of key/value     *)
(*   pairs in insertion order).                                            *)
(***************************************************************************)
EXTENDS Integers, Sequences, FiniteSets, TLC

\* ------------------------------------------------------------------------
\* Bounds of the model
\* ------------------------------------------------------------------------
\* rows of a sheet uploaded in a session
MaxClients == 1
MaxWorkers == 1
MaxTasks == 2
\* rows of a task sheet of the dependency-graph sessions
MaxGraphTasks == 3
\* rows of the task sheet of a traced run of detectCircularDependencies
MaxDfsTasks == 3
\* rows of the collection under study in the identifier sessions
MaxIdRows == 3

\* ------------------------------------------------------------------------
\* JavaScript values
\* ------------------------------------------------------------------------
Undefined == [t |-> "undefined"]
Null == [t |-> "null"]
Bool(b) == [t |-> "boolean", b |-> b]
Str(s) == [t |-> "string", s |-> s]
Num(h) == [t |-> "number", h |-> h]
IntV(n) == Num(2 * n)
NaN == [t |-> "nan"]
Arr(a) == [t |-> "array", a |-> a]
Obj(o) == [t |-> "object", o |-> o]

IsArray(v) == v.t = "array"
IsNaN(v) == v.t = "nan"
IsNumber(v) == v.t \in {"number", "nan"}

\* typeof v
TypeOf(v) ==
  CASE v.t = "undefined" -> "undefined"
    [] v.t = "boolean" -> "boolean"
    [] v.t = "string" -> "string"
    [] v.t \in {"number", "nan"} -> "number"
    [] OTHER -> "object"

\* if (v) ...
Truthy(v) ==
  CASE v.t \in {"undefined", "null", "nan"} -> FALSE
    [] v.t = "boolean" -> v.b
    [] v.t = "string" -> v.s # ""
    [] v.t = "number" -> v.h # 0
    [] OTHER -> TRUE

\* v !== undefined && v !== null
Present(v) == v.t \notin {"undefined", "null"}

\* ------------------------------------------------------------------------
\* Strings
\* ------------------------------------------------------------------------
Char(s, i) == SubSeq(s, i, i)
Whitespace == {" ", "\t", "\n"}
Digits == "0123456789"

IndexOfChar(s, c) ==
  IF \E i \in 1..Len(s) : Char(s, i) = c
  THEN CHOOSE i \in 1..Len(s) :
         Char(s, i) = c /\ \A j \in 1..(i - 1) : Char(s, j) # c
  ELSE 0

IsDigit(c) == IndexOfChar(Digits, c) > 0
DigitVal(c) == IndexOfChar(Digits, c) - 1
AllDigits(s) == \A i \in 1..Len(s) : IsDigit(Char(s, i))

RECURSIVE TrimStart(_)
TrimStart(s) ==
  IF s # "" /\ Head(s) \in Whitespace THEN TrimStart(Tail(s)) ELSE s

RECURSIVE TrimEnd(_)
TrimEnd(s) ==
  IF s # "" /\ Char(s, Len(s)) \in Whitespace
  THEN TrimEnd(SubSeq(s, 1, Len(s) - 1))
  ELSE s

\* String.prototype.trim
Trim(s) == TrimEnd(TrimStart(s))

\* String.prototype.split(',')
RECURSIVE SplitComma(_)
SplitComma(s) ==
  LET i == IndexOfChar(s, ",")
  IN IF i = 0
     THEN <<s>>
     ELSE <<SubSeq(s, 1, i - 1)>> \o SplitComma(SubSeq(s, i + 1, Len(s)))

RECURSIVE StrToNat(_)
StrToNat(s) ==
  IF s = "" THEN 0
  ELSE 10 * StrToNat(SubSeq(s, 1, Len(s) - 1)) + DigitVal(Char(s, Len(s)))

RECURSIVE NatToStr(_)
NatToStr(n) ==
  IF n < 10 THEN Char(Digits, n + 1)
  ELSE NatToStr(n \div 10) \o Char(Digits, (n % 10) + 1)

\* The decimal rendering of the number h/2.
NumToStr(h) ==
  LET a == IF h < 0 THEN -h ELSE h
  IN (IF h < 0 THEN "-" ELSE "")
       \o NatToStr(a \div 2)
       \o (IF a % 2 = 1 THEN ".5" ELSE "")

\* The halves denoted by the fraction digits f of a decimal numeral: exact
\* for the fractions .0 and .5, which are the ones the rows of the model
\* use; any other fraction is kept a non-integer.
FracHalves(f) ==
  IF \A i \in 1..Len(f) : Char(f, i) = "0" THEN 0 ELSE 1

\* An unsigned decimal numeral "ddd", "ddd.ddd", "ddd." or ".ddd".
IsDecimal(s) ==
  LET d == IndexOfChar(s, ".")
      ip == IF d = 0 THEN s ELSE SubSeq(s, 1, d - 1)
      fp == IF d = 0 THEN "" ELSE SubSeq(s, d + 1, Len(s))
  IN /\ AllDigits(ip) /\ AllDigits(fp)
     /\ ip \o fp # ""

DecimalHalves(s) ==
  LET d == IndexOfChar(s, ".")
      ip == IF d = 0 THEN s ELSE SubSeq(s, 1, d - 1)
      fp == IF d = 0 THEN "" ELSE SubSeq(s, d + 1, Len(s))
  IN 2 * StrToNat(ip) + FracHalves(fp)

\* Number(s) for a string s: the empty or blank string is 0, a decimal
\* numeral with an optional sign is its value, anything else is NaN.
StrToNumber(s) ==
  LET u == Trim(s)
      signed == u # "" /\ Head(u) \in {"-", "+"}
      body == IF signed THEN Tail(u) ELSE u
  IN IF u = "" THEN Num(0)
     ELSE IF IsDecimal(body)
          THEN Num((IF signed /\ Head(u) = "-" THEN -1 ELSE 1) * DecimalHalves(body))
          ELSE NaN

RECURSIVE JoinStr(_, _)
JoinStr(ss, sep) ==
  IF ss = <<>> THEN ""
  ELSE IF Len(ss) = 1 THEN ss[1]
  ELSE ss[1] \o sep \o JoinStr(Tail(ss), sep)

\* String(v)
RECURSIVE StringOf(_)
StringOf(v) ==
  CASE v.t = "undefined" -> "undefined"
    [] v.t = "null" -> "null"
    [] v.t = "boolean" -> IF v.b THEN "true" ELSE "false"
    [] v.t = "string" -> v.s
    [] v.t = "number" -> NumToStr(v.h)
    [] v.t = "nan" -> "NaN"
    [] v.t = "array" ->
         JoinStr([i \in 1..Len(v.a) |->
                    IF Present(v.a[i]) THEN StringOf(v.a[i]) ELSE ""], ",")
    [] OTHER -> "[object Object]"

\* Number(v)
ToNumber(v) ==
  CASE v.t = "undefined" -> NaN
    [] v.t = "null" -> Num(0)
    [] v.t = "boolean" -> IF v.b THEN Num(2) ELSE Num(0)
    [] v.t \in {"number", "nan"} -> v
    [] v.t \in {"string", "array"} -> StrToNumber(StringOf(v))
    [] OTHER -> NaN

\* Number.isInteger(v), v a number
IsInteger(v) == v.t = "number" /\ v.h % 2 = 0

\* a < b, a > b, a <= b on numbers: false as soon as one side is NaN
Lt(a, b) == a.t = "number" /\ b.t = "number" /\ a.h < b.h
Gt(a, b) == Lt(b, a)
\* a <= b read as a < b: the boundary value is let through
Le_Strict(a, b) == Lt(a, b)
Le(a, b) == a.t = "number" /\ b.t = "number" /\ a.h <= b.h

\* a + b on numbers
Plus(a, b) == IF a.t = "number" /\ b.t = "number" THEN Num(a.h + b.h) ELSE NaN

\* v || 0
OrZero(v) == IF Truthy(v) THEN v ELSE Num(0)

\* ------------------------------------------------------------------------
\* JSON.parse
\* The grammar of JSON without string escapes and number exponents: none of
\* the texts of the model uses one.
\* ------------------------------------------------------------------------
StartsWith(s, p) == Len(s) >= Len(p) /\ SubSeq(s, 1, Len(p)) = p
Drop(s, n) == SubSeq(s, n + 1, Len(s))

ParseFail == [ok |-> FALSE, v |-> Undefined, rest |-> ""]
ParseOk(v, rest) == [ok |-> TRUE, v |-> v, rest |-> rest]

\* The length of the longest prefix of s made of digits.
DigitRun(s) ==
  IF \E i \in 1..Len(s) : ~IsDigit(Char(s, i))
  THEN (CHOOSE i \in 1..Len(s) :
          ~IsDigit(Char(s, i)) /\ \A j \in 1..(i - 1) : IsDigit(Char(s, j))) - 1
  ELSE Len(s)

\* number: -? (0 | [1-9][0-9]*) (. [0-9]+)?
ParseNumber(s) ==
  LET neg == StartsWith(s, "-")
      s1 == IF neg THEN Tail(s) ELSE s
      n == DigitRun(s1)
      ip == SubSeq(s1, 1, n)
      s2 == Drop(s1, n)
      hasFrac == StartsWith(s2, ".")
      m == IF hasFrac THEN DigitRun(Tail(s2)) ELSE 0
      fp == IF hasFrac THEN SubSeq(s2, 2, m + 1) ELSE ""
      rest == IF hasFrac THEN Drop(s2, m + 1) ELSE s2
  IN IF n = 0 \/ (n > 1 /\ Head(ip) = "0") \/ (hasFrac /\ m = 0)
     THEN ParseFail
     ELSE ParseOk(Num((IF neg THEN -1 ELSE 1) * (2 * StrToNat(ip) + FracHalves(fp))),
                  rest)

\* string: s starts with the opening quote
ParseString(s) ==
  LET body == Tail(s)
      i == IndexOfChar(body, "\"")
  IN IF i = 0 THEN ParseFail
     ELSE ParseOk(Str(SubSeq(body, 1, i - 1)), Drop(body, i))

RECURSIVE ParseValue(_), ParseElements(_, _), ParseMembers(_, _)

ParseValue(s) ==
  LET s1 == TrimStart(s)
  IN CASE s1 = "" -> ParseFail
       [] StartsWith(s1, "{") -> ParseMembers(Tail(s1), <<>>)
       [] StartsWith(s1, "[") -> ParseElements(Tail(s1), <<>>)
       [] StartsWith(s1, "\"") -> ParseString(s1)
       [] StartsWith(s1, "null") -> ParseOk(Null, Drop(s1, 4))
       [] StartsWith(s1, "true") -> ParseOk(Bool(TRUE), Drop(s1, 4))
       [] StartsWith(s1, "false") -> ParseOk(Bool(FALSE), Drop(s1, 5))
       [] OTHER -> ParseNumber(s1)

\* s follows "[" or a "," of an array; acc holds the elements read so far
ParseElements(s, acc) ==
  LET s1 == TrimStart(s)
  IN IF acc = <<>> /\ StartsWith(s1, "]")
     THEN ParseOk(Arr(<<>>), Tail(s1))
     ELSE LET r == ParseValue(s1)
              s2 == TrimStart(r.rest)
          IN IF ~r.ok THEN ParseFail
             ELSE IF StartsWith(s2, ",") THEN ParseElements(Tail(s2), Append(acc, r.v))
             ELSE IF StartsWith(s2, "]") THEN ParseOk(Arr(Append(acc, r.v)), Tail(s2))
             ELSE ParseFail

\* s follows "{" or a "," of an object; acc holds the members read so far
ParseMembers(s, acc) ==
  LET s1 == TrimStart(s)
  IN IF acc = <<>> /\ StartsWith(s1, "}")
     THEN ParseOk(Obj(<<>>), Tail(s1))
     ELSE IF ~StartsWith(s1, "\"") THEN ParseFail
     ELSE LET k == ParseString(s1)
              s2 == TrimStart(k.rest)
              r == ParseValue(Tail(s2))
              s3 == TrimStart(r.rest)
              m == Append(acc, [k |-> k.v.s, v |-> r.v])
          IN IF ~k.ok \/ ~StartsWith(s2, ":") THEN ParseFail
             ELSE IF ~r.ok THEN ParseFail
             ELSE IF StartsWith(s3, ",") THEN ParseMembers(Tail(s3), m)
             ELSE IF StartsWith(s3, "}") THEN ParseOk(Obj(m), Tail(s3))
             ELSE ParseFail

\* The text is JSON when one value was read and only white space follows it.
ParseEnd(r) ==
  IF r.ok /\ TrimStart(r.rest) = ""
  THEN [ok |-> TRUE, v |-> r.v]
  ELSE [ok |-> FALSE, v |-> Undefined]

\* JSON.parse(text): ok = FALSE stands for the SyntaxError it throws
JsonParse(text) == ParseEnd(ParseValue(text))

\* obj[key]
GetProp(obj, key) ==
  IF obj.t = "object" /\ \E i \in 1..Len(obj.o) : obj.o[i].k = key
  THEN obj.o[CHOOSE i \in 1..Len(obj.o) : obj.o[i].k = key].v
  ELSE Undefined

\* ------------------------------------------------------------------------
\* Helpers of validation.ts
\* ------------------------------------------------------------------------
getStringValue(value) ==
  IF ~Present(value) THEN "" ELSE Trim(StringOf(value))

\* try { return JSON.parse(value) } catch { return null }
OrNull(r) == IF r.ok THEN r.v ELSE Null

safeJsonParse(value) ==
  IF ~Truthy(value) THEN Null ELSE OrNull(JsonParse(StringOf(value)))

\* The validators handed to validateArrayStructure, by name: validateWorker
\* hands the slot validator, validateTask hands none.
SlotValidator(slot) ==
  /\ TypeOf(slot) = "object" /\ slot # Null
  /\ TypeOf(GetProp(slot, "start")) = "string"
  /\ TypeOf(GetProp(slot, "end")) = "string"
NoValidator == "undefined"
\* validator ? validator(item) : true
ApplyValidator(validator, item) ==
  IF validator = "SlotValidator" THEN SlotValidator(item) ELSE TRUE

validateArrayStructure(arr, expectedType, validator) ==
  IF ~IsArray(arr) THEN FALSE
  ELSE \A i \in 1..Len(arr.a) :
         LET item == arr.a[i]
         IN IF expectedType = "object" THEN TypeOf(item) = "object" /\ item # Null
            ELSE IF expectedType = "number" THEN TypeOf(item) = "number"
            ELSE IF expectedType = "string" THEN TypeOf(item) = "string"
            ELSE ApplyValidator(validator, item)

\* Set.has, Map.has, Array.includes: SameValueZero.  Arrays and objects are
\* compared by reference, and no two values of the rows share a reference.
SameValueZero(a, b) == a.t \notin {"array", "object"} /\ a = b
Includes(seq, v) == \E i \in 1..Len(seq) : SameValueZero(seq[i], v)

RECURSIVE Concat(_)
Concat(seqs) == IF seqs = <<>> THEN <<>> ELSE Head(seqs) \o Concat(Tail(seqs))

\* getStringValue(v).split(',').map(x => x.trim()).filter(x => x)
SplitList(v) ==
  LET parts == SplitComma(getStringValue(v))
      trimmed == [i \in 1..Len(parts) |-> Str(Trim(parts[i]))]
  IN SelectSeq(trimmed, Truthy)

\* Array.isArray(v) ? v : getStringValue(v).split(',')...
ListOf(v) == IF IsArray(v) THEN v.a ELSE SplitList(v)

Msg(text, args) == [text |-> text, args |-> args]

ValidationError(entityType, rowId, field, message, severity) ==
  [entityType |-> entityType, rowId |-> rowId, field |-> field,
   message |-> message, severity |-> severity]

\* ------------------------------------------------------------------------
\* detectCircularDependencies
\* ------------------------------------------------------------------------
\* The graph is a Map: a sequence of entries [k, v] in insertion order.
MapHas(map, key) == \E i \in 1..Len(map) : SameValueZero(map[i].k, key)
MapIndex(map, key) == CHOOSE i \in 1..Len(map) : SameValueZero(map[i].k, key)
MapGet(map, key) == IF MapHas(map, key) THEN map[MapIndex(map, key)].v ELSE Undefined
\* Map.set: a known key keeps its place and takes the new value
MapSet(map, key, value) ==
  IF MapHas(map, key)
  THEN [map EXCEPT ![MapIndex(map, key)].v = value]
  ELSE Append(map, [k |-> key, v |-> value])

\* The entry that one task contributes to the graph.
\* task.TaskID on the first branch (where it is truthy), task.TaskID || '' on the other
GraphKey(task) == IF Truthy(task.TaskID) THEN task.TaskID ELSE Str("")

GraphDependencies(task) ==
  IF Truthy(task.TaskID) /\ Truthy(task.Dependencies)
  THEN ListOf(task.Dependencies)
  ELSE <<>>

RECURSIVE BuildGraph(_, _)
BuildGraph(tasks, graph) ==
  IF tasks = <<>> THEN graph
  ELSE BuildGraph(Tail(tasks),
                  MapSet(graph, GraphKey(Head(tasks)), GraphDependencies(Head(tasks))))

\* path.indexOf(node), 1-based; node is on the path whenever it is asked for
IndexOf(path, node) ==
  CHOOSE i \in 1..Len(path) : path[i] = node /\ \A j \in 1..(i - 1) : path[j] # node

\* graph.get(node) || []
Neighbors(graph, node) == IF MapHas(graph, node) THEN MapGet(graph, node) ELSE <<>>

\* The state of one run: visited, recursionStack, cycles.
NewDfsState == [visited |-> {}, recursionStack |-> {}, cycles |-> <<>>]

\* recursionStack.has(node)
OnStack(stack, node) == node \in stack
\* a visited set that is never consulted
IsVisited_Never(seen, node) == FALSE
\* visited.has(node)
IsVisited(seen, node) == node \in seen
\* the cyclic suffix closed by the node it started from
CycleOf_Closed(path, node) ==
  Append(SubSeq(path, IndexOf(path, node), Len(path)), node)
\* the whole path, with the tasks that led into the cycle
CycleOf_WholePath(path, node) == path
\* path.slice(path.indexOf(node)): the cyclic suffix of the path
CycleOf(path, node) == SubSeq(path, IndexOf(path, node), Len(path))
\* dfs called on every neighbour, declared or not
Followed_Always(g, neighbor) == TRUE
\* if (graph.has(neighbor)): the neighbours dfs is called on
Followed(g, neighbor) == MapHas(g, neighbor)

RECURSIVE dfs(_, _, _, _), dfsNeighbors(_, _, _, _, _)
dfs(g, node, path, st) ==
  IF OnStack(st.recursionStack, node)
  THEN [st EXCEPT !.cycles = Append(@, CycleOf(path, node))]
  ELSE IF IsVisited(st.visited, node) THEN st
  ELSE LET path1 == Append(path, node)
           st1 == [st EXCEPT !.visited = @ \cup {node},
                             !.recursionStack = @ \cup {node}]
           st2 == dfsNeighbors(g, Neighbors(g, node), 1, path1, st1)
       IN [st2 EXCEPT !.recursionStack = @ \ {node}]

\* neighbors.forEach(neighbor => { if (graph.has(neighbor)) dfs(neighbor, [...path]) })
dfsNeighbors(g, neighbors, i, path, st) ==
  IF i > Len(neighbors) THEN st
  ELSE dfsNeighbors(g, neighbors, i + 1, path,
                    IF Followed(g, neighbors[i])
                    THEN dfs(g, neighbors[i], path, st)
                    ELSE st)

\* graph.forEach((_, node) => { if (!visited.has(node)) dfs(node, []) })
RECURSIVE dfsRoots(_, _, _)
dfsRoots(g, i, st) ==
  IF i > Len(g) THEN st
  ELSE dfsRoots(g, i + 1,
                IF ~IsVisited(st.visited, g[i].k)
                THEN dfs(g, g[i].k, <<>>, st)
                ELSE st)

detectCircularDependencies(allTasks) ==
  dfsRoots(BuildGraph(allTasks, <<>>), 1, NewDfsState).cycles

\* ------------------------------------------------------------------------
\* validateClient
\* ------------------------------------------------------------------------
validateClient(client, allTasks) ==
  LET clientId == getStringValue(client.ClientID)
      name == getStringValue(client.Name)
      nameErrors ==
        IF name = ""
        THEN <<ValidationError("clients", Str(clientId), "Name",
                               Msg("Name is required", <<>>), "error")>>
        ELSE <<>>
      idErrors ==
        IF clientId = ""
        THEN <<ValidationError("clients", Str(clientId), "ClientID",
                               Msg("ClientID is required", <<>>), "error")>>
        ELSE <<>>
      parsed == safeJsonParse(client.AttributesJSON)
      jsonErrors ==
        IF ~Truthy(client.AttributesJSON) THEN <<>>
        ELSE IF parsed = Null
        THEN <<ValidationError("clients", Str(clientId), "AttributesJSON",
                               Msg("Invalid JSON format", <<>>), "error")>>
        ELSE IF TypeOf(parsed) # "object"
        THEN <<ValidationError("clients", Str(clientId), "AttributesJSON",
                               Msg("AttributesJSON must be a JSON object", <<>>), "error")>>
        ELSE <<>>
      requestedTaskIds == ListOf(client.RequestedTaskIDs)
      existingTaskIds ==
        SelectSeq([i \in 1..Len(allTasks) |-> allTasks[i].TaskID], Truthy)
      missingTaskIds ==
        SelectSeq(requestedTaskIds, LAMBDA taskId : ~Includes(existingTaskIds, taskId))
      requestedErrors ==
        IF Truthy(client.RequestedTaskIDs) /\ Len(missingTaskIds) > 0
        THEN <<ValidationError("clients", Str(clientId), "RequestedTaskIDs",
                               Msg("Referenced tasks not found: ", missingTaskIds),
                               "warning")>>
        ELSE <<>>
  IN nameErrors \o idErrors \o jsonErrors \o requestedErrors

\* ------------------------------------------------------------------------
\* validateWorker
\* ------------------------------------------------------------------------
validateWorker(worker) ==
  LET workerId == getStringValue(worker.WorkerID)
      idErrors ==
        IF workerId = ""
        THEN <<ValidationError("workers", Str(workerId), "WorkerID",
                               Msg("WorkerID is required", <<>>), "error")>>
        ELSE <<>>
      slots == IF IsArray(worker.AvailableSlots)
               THEN worker.AvailableSlots
               ELSE safeJsonParse(worker.AvailableSlots)
      slotLoad == ToNumber(worker.MaxLoadPerPhase)
      slotErrors ==
        IF ~Truthy(worker.AvailableSlots) THEN <<>>
        ELSE IF ~validateArrayStructure(slots, "object", "SlotValidator")
        THEN <<ValidationError("workers", Str(workerId), "AvailableSlots",
                 Msg("AvailableSlots must be an array of objects with start/end properties",
                     <<>>),
                 "error")>>
        ELSE IF ~IsNaN(slotLoad) /\ Gt(slotLoad, Num(0)) /\ Lt(IntV(Len(slots.a)), slotLoad)
        THEN <<ValidationError("workers", Str(workerId), "AvailableSlots",
                 Msg("Worker has {0} slots but MaxLoadPerPhase is {1} (potential overload)",
                     <<IntV(Len(slots.a)), slotLoad>>),
                 "warning")>>
        ELSE <<>>
      maxLoad == ToNumber(worker.MaxLoadPerPhase)
      loadErrors ==
        IF Present(worker.MaxLoadPerPhase)
           /\ (IsNaN(maxLoad) \/ ~IsInteger(maxLoad) \/ Le(maxLoad, Num(0)))
        THEN <<ValidationError("workers", Str(workerId), "MaxLoadPerPhase",
                               Msg("MaxLoadPerPhase must be a positive integer", <<>>),
                               "error")>>
        ELSE <<>>
      skills == getStringValue(worker.Skills)
      skillErrors ==
        IF skills = ""
        THEN <<ValidationError("workers", Str(workerId), "Skills",
                               Msg("Skills are required", <<>>), "error")>>
        ELSE <<>>
  IN idErrors \o slotErrors \o loadErrors \o skillErrors

\* ------------------------------------------------------------------------
\* validateTask
\* ------------------------------------------------------------------------

\* The skills of the workers that list any, in worker order.
\* a roster whose skills are never collected
AllWorkerSkills_None(allWorkers) == <<>>

AllWorkerSkills(allWorkers) ==
  Concat([i \in 1..Len(allWorkers) |->
            IF Truthy(allWorkers[i].Skills) THEN ListOf(allWorkers[i].Skills) ELSE <<>>])

\* requiredSkills.every read as requiredSkills.some: one shared skill qualifies
QualifiedWorkers_AnySkill(requiredSkills, allWorkers) ==
  SelectSeq(allWorkers,
            LAMBDA worker :
              /\ Truthy(worker.Skills)
              /\ \E i \in 1..Len(requiredSkills) :
                   Includes(ListOf(worker.Skills), requiredSkills[i]))

QualifiedWorkers(requiredSkills, allWorkers) ==
  SelectSeq(allWorkers,
            LAMBDA worker :
              /\ Truthy(worker.Skills)
              /\ \A i \in 1..Len(requiredSkills) :
                   Includes(ListOf(worker.Skills), requiredSkills[i]))

validateTask(task, allWorkers) ==
  LET taskId == getStringValue(task.TaskID)
      duration == ToNumber(task.Duration)
      durationErrors ==
        IF Present(task.Duration) /\ (IsNaN(duration) \/ Lt(duration, IntV(1)))
        THEN <<ValidationError("tasks", Str(taskId), "Duration",
                               Msg("Duration must be at least 1", <<>>), "error")>>
        ELSE <<>>
      priority == ToNumber(task.PriorityLevel)
      priorityErrors ==
        IF Present(task.PriorityLevel)
           /\ (IsNaN(priority) \/ Lt(priority, IntV(1)) \/ Gt(priority, IntV(5)))
        THEN <<ValidationError("tasks", Str(taskId), "PriorityLevel",
                               Msg("PriorityLevel must be between 1 and 5", <<>>),
                               "error")>>
        ELSE <<>>
      phases == IF IsArray(task.PreferredPhases)
                THEN task.PreferredPhases
                ELSE safeJsonParse(task.PreferredPhases)
      phaseErrors ==
        IF Truthy(task.PreferredPhases)
           /\ ~validateArrayStructure(phases, "number", NoValidator)
        THEN <<ValidationError("tasks", Str(taskId), "PreferredPhases",
                               Msg("PreferredPhases must be an array of numbers", <<>>),
                               "error")>>
        ELSE <<>>
      requiredSkills == ListOf(task.RequiredSkills)
      allWorkerSkills == AllWorkerSkills(allWorkers)
      unmatchedSkills ==
        SelectSeq(requiredSkills, LAMBDA skill : ~Includes(allWorkerSkills, skill))
      qualifiedWorkers == QualifiedWorkers(requiredSkills, allWorkers)
      maxConcurrent == ToNumber(task.MaxConcurrent)
      skillErrors ==
        IF ~Truthy(task.RequiredSkills) THEN <<>>
        ELSE (IF Len(unmatchedSkills) > 0
              THEN <<ValidationError("tasks", Str(taskId), "RequiredSkills",
                                     Msg("No worker has skills: ", unmatchedSkills),
                                     "warning")>>
              ELSE <<>>)
             \o
             (IF Len(qualifiedWorkers) = 0
              THEN <<ValidationError("tasks", Str(taskId), "RequiredSkills",
                                     Msg("No workers match all required skills", <<>>),
                                     "error")>>
              ELSE IF Present(task.MaxConcurrent)
                      /\ ~IsNaN(maxConcurrent)
                      /\ Gt(maxConcurrent, IntV(Len(qualifiedWorkers)))
              THEN <<ValidationError("tasks", Str(taskId), "MaxConcurrent",
                       Msg("MaxConcurrent ({0}) exceeds qualified workers ({1})",
                           <<maxConcurrent, IntV(Len(qualifiedWorkers))>>),
                       "warning")>>
              ELSE <<>>)
      concurrentErrors ==
        IF Present(task.MaxConcurrent)
           /\ (IsNaN(maxConcurrent) \/ Le(maxConcurrent, Num(0)))
        THEN <<ValidationError("tasks", Str(taskId), "MaxConcurrent",
                               Msg("MaxConcurrent must be greater than 0", <<>>),
                               "error")>>
        ELSE <<>>
  IN durationErrors \o priorityErrors \o phaseErrors \o skillErrors \o concurrentErrors

\* ------------------------------------------------------------------------
\* validateDuplicateIds
\* ------------------------------------------------------------------------
\* The Map id -> rows of one collection: each row with a non-empty id adds
\* "Row <index + 1>" to the entry of its id.
RECURSIVE IdRows(_, _, _, _)
IdRows(rows, idField, index, map) ==
  IF index > Len(rows) THEN map
  ELSE LET id == Str(getStringValue(rows[index][idField]))
           known == IF MapHas(map, id) THEN MapGet(map, id) ELSE <<>>
       IN IdRows(rows, idField, index + 1,
                 IF id.s # ""
                 THEN MapSet(map, id, Append(known, Str("Row " \o NatToStr(index))))
                 ELSE map)

\* DuplicateErrors reporting every identifier of the Map, shared or not
DuplicateErrors_EveryId(rows, idField, entityType, text) ==
  LET map == IdRows(rows, idField, 1, <<>>)
  IN Concat([i \in 1..Len(map) |->
               IF Len(map[i].v) > 0
               THEN <<ValidationError(entityType, map[i].k, idField,
                                      Msg(text, map[i].v), "error")>>
               ELSE <<>>])

DuplicateErrors(rows, idField, entityType, text) ==
  LET map == IdRows(rows, idField, 1, <<>>)
  IN Concat([i \in 1..Len(map) |->
               IF Len(map[i].v) > 1
               THEN <<ValidationError(entityType, map[i].k, idField,
                                      Msg(text, map[i].v), "error")>>
               ELSE <<>>])

validateDuplicateIds(clients, workers, tasks) ==
  DuplicateErrors(clients, "ClientID", "clients", "Duplicate ClientID found in rows: ")
    \o DuplicateErrors(workers, "WorkerID", "workers", "Duplicate WorkerID found in rows: ")
    \o DuplicateErrors(tasks, "TaskID", "tasks", "Duplicate TaskID found in rows: ")

\* ------------------------------------------------------------------------
\* validateSchedulingFeasibility
\* ------------------------------------------------------------------------
\* map.set(key, (map.get(key) || 0) + amount) for each [key, amount] in turn
RECURSIVE Accumulate(_, _)
Accumulate(adds, map) ==
  IF adds = <<>> THEN map
  ELSE LET a == Head(adds)
       IN Accumulate(Tail(adds), MapSet(map, a.k, Plus(OrZero(MapGet(map, a.k)), a.v)))

\* The phases of one task: the array itself, or the cell parsed as JSON.
TaskPhases(task) ==
  IF IsArray(task.PreferredPhases)
  THEN task.PreferredPhases
  ELSE safeJsonParse(task.PreferredPhases)

\* The demand one task adds: its duration on each of its phases.
TaskDemand(task, phases) ==
  IF Truthy(task.PreferredPhases) /\ Truthy(task.Duration) /\ IsArray(phases)
  THEN [j \in 1..Len(phases.a) |-> [k |-> phases.a[j], v |-> ToNumber(task.Duration)]]
  ELSE <<>>

PhaseDemand(tasks) ==
  Accumulate(Concat([i \in 1..Len(tasks) |-> TaskDemand(tasks[i], TaskPhases(tasks[i]))]),
             <<>>)

WorkerSlots(worker) ==
  IF IsArray(worker.AvailableSlots)
  THEN worker.AvailableSlots
  ELSE safeJsonParse(worker.AvailableSlots)

\* const phase = 1: the phase every slot is credited to
PlaceholderPhase == 1

\* v || 1
OrOne(v) == IF Truthy(v) THEN v ELSE IntV(1)

\* A capacity that would credit every slot to phase 2 as well.
WorkerCapacity_EveryPhase(worker, slots) ==
  IF Truthy(worker.AvailableSlots) /\ IsArray(slots)
  THEN Concat([j \in 1..Len(slots.a) |->
                 <<[k |-> IntV(PlaceholderPhase), v |-> OrOne(ToNumber(worker.MaxLoadPerPhase))],
                   [k |-> IntV(PlaceholderPhase + 1), v |-> OrOne(ToNumber(worker.MaxLoadPerPhase))]>>])
  ELSE <<>>

\* The capacity one worker adds: Number(worker.MaxLoadPerPhase) || 1 per slot,
\* all of it on the placeholder phase.
WorkerCapacity(worker, slots) ==
  IF Truthy(worker.AvailableSlots) /\ IsArray(slots)
  THEN [j \in 1..Len(slots.a) |->
          [k |-> IntV(PlaceholderPhase), v |-> OrOne(ToNumber(worker.MaxLoadPerPhase))]]
  ELSE <<>>

PhaseCapacity(workers) ==
  Accumulate(
    Concat([i \in 1..Len(workers) |-> WorkerCapacity(workers[i], WorkerSlots(workers[i]))]),
    <<>>)

\* phaseDemand.forEach((demand, phase) => ...)
SaturationErrors(phaseDemand, phaseCapacity) ==
  Concat([i \in 1..Len(phaseDemand) |->
            IF Gt(phaseDemand[i].v, OrZero(MapGet(phaseCapacity, phaseDemand[i].k)))
            THEN <<ValidationError("tasks",
                     Str("phase-" \o StringOf(phaseDemand[i].k)), "Scheduling",
                     Msg("Phase {0} demand ({1}) exceeds capacity ({2})",
                         <<phaseDemand[i].k, phaseDemand[i].v,
                           OrZero(MapGet(phaseCapacity, phaseDemand[i].k))>>),
                     "warning")>>
            ELSE <<>>])

validateSchedulingFeasibility(clients, workers, tasks) ==
  SaturationErrors(PhaseDemand(tasks), PhaseCapacity(workers))

\* ------------------------------------------------------------------------
\* validateCircularDependencies
\* ------------------------------------------------------------------------
\* cycles.forEach(cycle => cycle.forEach(taskId => errors.push(...)))
CycleErrors(cycles) ==
  Concat([c \in 1..Len(cycles) |->
            [n \in 1..Len(cycles[c]) |->
               ValidationError("tasks", cycles[c][n], "Dependencies",
                               Msg("Circular dependency detected: ", cycles[c]),
                               "error")]])

validateCircularDependencies(tasks) == CycleErrors(detectCircularDependencies(tasks))

\* ------------------------------------------------------------------------
\* validateAllData
\* ------------------------------------------------------------------------
ClientErrors(clients, tasks) ==
  Concat([i \in 1..Len(clients) |-> validateClient(clients[i], tasks)])
WorkerErrors(workers) ==
  Concat([i \in 1..Len(workers) |-> validateWorker(workers[i])])
TaskErrors(tasks, workers) ==
  Concat([i \in 1..Len(tasks) |-> validateTask(tasks[i], workers)])

\* validateAllData with the last two validators pushed in the other order
AllErrors_CyclesBeforeSaturation(clients, workers, tasks) ==
  ClientErrors(clients, tasks)
    \o WorkerErrors(workers)
    \o TaskErrors(tasks, workers)
    \o validateDuplicateIds(clients, workers, tasks)
    \o validateCircularDependencies(tasks)
    \o validateSchedulingFeasibility(clients, workers, tasks)

AllErrors(clients, workers, tasks) ==
  ClientErrors(clients, tasks)
    \o WorkerErrors(workers)
    \o TaskErrors(tasks, workers)
    \o validateDuplicateIds(clients, workers, tasks)
    \o validateSchedulingFeasibility(clients, workers, tasks)
    \o validateCircularDependencies(tasks)

\* return { errors, isValid: errors.length === 0 }
ValidationResult(errors) == [errors |-> errors, isValid |-> Len(errors) = 0]

validateAllData(clients, workers, tasks) ==
  ValidationResult(AllErrors(clients, workers, tasks))

\* ------------------------------------------------------------------------
\* State
\* ------------------------------------------------------------------------
VARIABLES
  clients,         \* page state: Client[]
  workers,         \* page state: Worker[]
  tasks,           \* page state: Task[]
  validation,      \* the result of validateAllData the grid memoises
  rendered,        \* FALSE from a state update until the grid has rendered again
  graph,           \* a traced run of detectCircularDependencies: the Map
  root,            \*   the entry graph.forEach has reached
  callStack,       \*   the frames of dfs: [node, path, pc, next]
  visited,         \*   the Set visited
  recursionStack,  \*   the Set recursionStack
  cycles,          \*   the array cycles
  expanded,        \*   history: the nodes whose neighbours were walked, in order
  dialog,          \* ErrorFixDialog, while open: error, aiSuggestion, loading, apiError
  edits,           \* the edits applied so far: [type, oldRow, newRow], latest last
  currentSection,  \* page state: the section the drawer has selected
  rulesConfig,     \* page state: businessRules, prioritization, validationRules
  appliedRules,    \* page state: the Set of applied suggestion ids
  appliedSuggestions,        \* page state: the Map from id to applied suggestion
  aiValidationDescriptions,  \* page state: description per validation flag
  businessRules,   \* RulesSection, while mounted: its own list of rules
  prioritization,  \* RulesSection, while mounted: its own slider values
  uploading,       \* UploadSection: the sheets handleFileUpload has yet to parse
  suggestions,     \* SmartRuleSuggestions, while mounted: the suggestions shown
  requests         \* the calls of getSmartRuleSuggestions still in flight

dataVars == <<clients, workers, tasks, validation, rendered>>
dfsVars == <<graph, root, callStack, visited, recursionStack, cycles, expanded>>
uiVars == <<dialog, edits>>
rulesVars == <<currentSection, rulesConfig, appliedRules, appliedSuggestions,
               aiValidationDescriptions, businessRules, prioritization>>
adviceVars == <<uploading, suggestions, requests>>
vars == <<clients, workers, tasks, validation, rendered,
          graph, root, callStack, visited, recursionStack, cycles, expanded,
          dialog, edits,
          currentSection, rulesConfig, appliedRules, appliedSuggestions,
          aiValidationDescriptions, businessRules, prioritization,
          uploading, suggestions, requests>>

\* ------------------------------------------------------------------------
\* Rows
\* ------------------------------------------------------------------------
Client(id, name, attributes, requested) ==
  [ClientID |-> id, Name |-> name, AttributesJSON |-> attributes,
   RequestedTaskIDs |-> requested]

Worker(id, skills, slots, maxLoad) ==
  [WorkerID |-> id, Skills |-> skills, AvailableSlots |-> slots,
   MaxLoadPerPhase |-> maxLoad]

Task(id, duration, priority, phases, skills, maxConcurrent, dependencies) ==
  [TaskID |-> id, Duration |-> duration, PriorityLevel |-> priority,
   PreferredPhases |-> phases, RequiredSkills |-> skills,
   MaxConcurrent |-> maxConcurrent, Dependencies |-> dependencies]

\* The sheets of at most max rows drawn from rows.
Sheets(rows, max) == UNION {[1..n -> rows] : n \in 0..max}

\* Rows of the sessions: cells as the spreadsheet parser delivers them
\* (strings and numbers; a column the sheet lacks is undefined).
ClientRows ==
  { Client(Str("C1"), Str("Acme"), Str("{\"vip\":true}"), Str("T1")),
    Client(Str(" C1 "), Str(""), Str("{bad"), Undefined),
    Client(Str(""), Str("Bolt"), Str("[1,2]"), Str("T1, T9")),
    Client(IntV(7), Str("Core"), Str("5"), Undefined) }

WorkerRows ==
  { Worker(Str("W1"), Str("weld,paint"), Str("[{\"start\":\"9\",\"end\":\"17\"}]"), IntV(1)),
    Worker(Str("W2"), Str(""), Str("[{\"start\":\"9\"}]"), IntV(0)),
    Worker(Undefined, Str("weld"), Str("soon"), Str("abc")) }

TaskRows ==
  { Task(Str("T1"), IntV(2), IntV(1), Str("[1]"), Str("weld"), IntV(1), Str("")),
    Task(Str("T2"), IntV(0), IntV(6), Str("1,2"), Str("weld,fly"), IntV(0), Str("T1")),
    Task(Str("T1"), IntV(5), IntV(0), Str("[2]"), Undefined, IntV(2), Str("T1")),
    Task(Undefined, Str("abc"), Undefined, Undefined, Undefined, Str("x"), Undefined) }

\* Rows of the dependency-graph sessions: three task ids, and Dependencies
\* cells that close cycles or name a task no sheet declares (T9).
GraphTaskIds == {"T1", "T2", "T3"}
DependencyCells == {"", "T1", "T2", "T2,T3", "T9, T1"}
GraphTask(id, dependencies) ==
  Task(Str(id), Undefined, Undefined, Undefined, Undefined, Undefined, Str(dependencies))
GraphTaskRows ==
  {GraphTask(id, deps) : id \in GraphTaskIds, deps \in DependencyCells}

\* ------------------------------------------------------------------------
\* The session: page state, upload, render
\* ------------------------------------------------------------------------
\* No dialog is open and no cell has been edited.
NoDialog == Null

\* The seven sliders, each at 50.
defaultPrioritization ==
  [priorityLevel |-> 50, requestedTaskFulfillment |-> 50, fairness |-> 50,
   efficiency |-> 50, deadlineAdherence |-> 50, skillMatch |-> 50,
   workloadBalance |-> 50]

\* One validation toggle: an entry of validationRules[entity].
Flag(flag, value) == [flag |-> flag, value |-> value]

\* useState<RulesConfig>: no business rule, default sliders, the initial
\* toggles of the three entity types.
InitialRulesConfig ==
  [businessRules |-> <<>>,
   prioritization |-> defaultPrioritization,
   validationRules |->
     [clients |-> {Flag("requireUniqueID", TRUE), Flag("requireName", TRUE),
                   Flag("validateEmail", FALSE), Flag("validatePhone", FALSE)},
      workers |-> {Flag("requireUniqueID", TRUE), Flag("requireName", TRUE),
                   Flag("validateEmail", FALSE), Flag("requireDepartment", FALSE)},
      tasks |-> {Flag("requireUniqueID", TRUE), Flag("requireTitle", TRUE),
                 Flag("validateClientID", FALSE), Flag("validateWorkerID", FALSE),
                 Flag("validateDueDate", FALSE)}]]

\* The rules state of a fresh page: the upload section is shown, nothing is
\* applied, and a RulesSection would mount with no rule and default sliders.
NoRules ==
  /\ currentSection = "upload"
  /\ rulesConfig = InitialRulesConfig
  /\ appliedRules = {}
  /\ appliedSuggestions = <<>>
  /\ aiValidationDescriptions = {}
  /\ businessRules = <<>>
  /\ prioritization = defaultPrioritization

\* No file is being parsed, no suggestion is shown or awaited.
NoAdvice == uploading = <<>> /\ suggestions = <<>> /\ requests = <<>>

FreshPage == dialog = NoDialog /\ edits = <<>> /\ NoRules /\ NoAdvice

NoRun ==
  /\ graph = <<>> /\ root = 1 /\ callStack = <<>>
  /\ visited = {} /\ recursionStack = {} /\ cycles = <<>> /\ expanded = <<>>

\* What the grid shows before any upload: the validation of three empty
\* collections (useState([])).
FirstRender == validateAllData(<<>>, <<>>, <<>>)

\* The state right after the first workbook has been uploaded in a fresh
\* session: handleFileUpload has called handleDataUpdate once per sheet,
\* each call replacing one collection, and the grid has not rendered since.
Uploaded(clientSheets, workerSheets, taskSheets) ==
  /\ clients \in clientSheets
  /\ workers \in workerSheets
  /\ tasks \in taskSheets
  /\ validation = FirstRender
  /\ rendered = FALSE
  /\ FreshPage
  /\ NoRun

\* The render after a state update: useMemo recomputes the validation by
\* running validateAllData on the current collections.
Render ==
  /\ ~rendered
  /\ validation' = validateAllData(clients, workers, tasks)
  /\ rendered' = TRUE
  /\ UNCHANGED <<clients, workers, tasks, dfsVars, uiVars, rulesVars, adviceVars>>

Init ==
  Uploaded(Sheets(ClientRows, MaxClients), Sheets(WorkerRows, MaxWorkers),
           Sheets(TaskRows, MaxTasks))

Next == Render

Spec == Init /\ [][Next]_vars

\* The sessions whose workbook holds one task sheet of the dependency-graph
\* rows.
InitGraph == Uploaded({<<>>}, {<<>>}, Sheets(GraphTaskRows, MaxGraphTasks))

NextGraph == Render

SpecGraph == InitGraph /\ [][NextGraph]_vars

\* The sessions that study the identifiers of one collection: its sheet has
\* up to MaxIdRows rows whose identifier cells repeat, differ, carry padding
\* or are empty, while each other collection is empty or holds one repeated
\* identifier.
IdCells == {Str(""), Str("A"), Str(" A "), Str("B")}
IdClient(id) == Client(id, Str("Acme"), Str(""), Undefined)
IdWorker(id) == Worker(id, Str("weld"), Str(""), IntV(1))
IdTask(id) == Task(id, IntV(1), IntV(1), Str(""), Str("weld"), IntV(1), Str(""))
IdSheets(rows) == Sheets(rows, MaxIdRows)
IdContext(row) == {<<>>, <<row, row>>}
IdClients == {IdClient(id) : id \in IdCells}
IdWorkers == {IdWorker(id) : id \in IdCells}
IdTasks == {IdTask(id) : id \in IdCells}

InitIds ==
  \/ Uploaded(IdSheets(IdClients), IdContext(IdWorker(Str("B"))),
              IdContext(IdTask(Str("B"))))
  \/ Uploaded(IdContext(IdClient(Str("B"))), IdSheets(IdWorkers),
              IdContext(IdTask(Str("B"))))
  \/ Uploaded(IdContext(IdClient(Str("B"))), IdContext(IdWorker(Str("B"))),
              IdSheets(IdTasks))

NextIds == Render

SpecIds == InitIds /\ [][NextIds]_vars

\* ------------------------------------------------------------------------
\* A traced run of detectCircularDependencies(tasks), one step of dfs at a
\* time.  A frame of callStack is one activation of dfs: its node, its copy
\* of the path, where it stands (pc) and the neighbour it comes to next.
\* ------------------------------------------------------------------------
DfsTaskRows ==
  {GraphTask(id, deps) : id \in GraphTaskIds, deps \in {"T1", "T2,T3", "T9,T1"}}

Frame(node, path) == [node |-> node, path |-> path, pc |-> "enter", next |-> 1]
Top == callStack[Len(callStack)]
Pop == SubSeq(callStack, 1, Len(callStack) - 1)
SetTop(frame) == [callStack EXCEPT ![Len(callStack)] = frame]

InitDfs ==
  /\ clients = <<>> /\ workers = <<>>
  /\ tasks \in Sheets(DfsTaskRows, MaxDfsTasks)
  /\ validation = FirstRender
  /\ rendered = FALSE
  /\ FreshPage
  /\ graph = BuildGraph(tasks, <<>>)
  /\ root = 1 /\ callStack = <<>>
  /\ visited = {} /\ recursionStack = {} /\ cycles = <<>> /\ expanded = <<>>

\* graph.forEach((_, node) => { if (!visited.has(node)) dfs(node, []) })
ForEachNode ==
  /\ callStack = <<>>
  /\ root <= Len(graph)
  /\ root' = root + 1
  /\ callStack' = IF ~IsVisited(visited, graph[root].k)
                  THEN <<Frame(graph[root].k, <<>>)>>
                  ELSE <<>>
  /\ UNCHANGED <<dataVars, uiVars, rulesVars, adviceVars, graph, visited, recursionStack, cycles, expanded>>

\* dfs, from its entry to the start of the walk over the neighbours
DfsEnter ==
  /\ callStack # <<>>
  /\ Top.pc = "enter"
  /\ IF OnStack(recursionStack, Top.node)
     THEN /\ cycles' = Append(cycles, CycleOf(Top.path, Top.node))
          /\ callStack' = Pop
          /\ UNCHANGED <<visited, recursionStack, expanded>>
     ELSE IF IsVisited(visited, Top.node)
     THEN /\ callStack' = Pop
          /\ UNCHANGED <<visited, recursionStack, cycles, expanded>>
     ELSE /\ visited' = visited \cup {Top.node}
          /\ recursionStack' = recursionStack \cup {Top.node}
          /\ callStack' = SetTop([Top EXCEPT !.path = Append(@, Top.node),
                                             !.pc = "walk"])
          /\ expanded' = Append(expanded, Top.node)
          /\ UNCHANGED cycles
  /\ UNCHANGED <<dataVars, uiVars, rulesVars, adviceVars, graph, root>>

\* one turn of neighbors.forEach
DfsNeighbor ==
  /\ callStack # <<>>
  /\ Top.pc = "walk"
  /\ Top.next <= Len(Neighbors(graph, Top.node))
  /\ LET neighbor == Neighbors(graph, Top.node)[Top.next]
         walked == SetTop([Top EXCEPT !.next = @ + 1])
     IN callStack' = IF Followed(graph, neighbor)
                     THEN Append(walked, Frame(neighbor, Top.path))
                     ELSE walked
  /\ UNCHANGED <<dataVars, uiVars, rulesVars, adviceVars, graph, root, visited, recursionStack, cycles, expanded>>

\* the end of neighbors.forEach: recursionStack.delete(node), return
DfsReturn ==
  /\ callStack # <<>>
  /\ Top.pc = "walk"
  /\ Top.next > Len(Neighbors(graph, Top.node))
  /\ recursionStack' = recursionStack \ {Top.node}
  /\ callStack' = Pop
  /\ UNCHANGED <<dataVars, uiVars, rulesVars, adviceVars, graph, root, visited, cycles, expanded>>

\* return cycles
DfsDone == callStack = <<>> /\ root > Len(graph)

NextDfs == ForEachNode \/ DfsEnter \/ DfsNeighbor \/ DfsReturn

\* The run is sequential code: it takes its next step as long as it has one.
SpecDfs == InitDfs /\ [][NextDfs]_vars /\ WF_vars(NextDfs)

\* ========================================================================
\* Claims
\* ========================================================================
HasSeverity(errors, severity) ==
  \E i \in 1..Len(errors) : errors[i].severity = severity

\* C1: validateAllData returns isValid = true exactly when no returned
\* finding has severity 'error'; findings that are all warnings leave the
\* result valid.
C1_ValidIffNoError ==
  rendered => (validation.isValid <=> ~HasSeverity(validation.errors, "error"))

\* C1, the case that decides it: a result with findings, all of them warnings.
C1_OnlyWarnings ==
  /\ rendered
  /\ validation.errors # <<>>
  /\ ~HasSeverity(validation.errors, "error")

\* C2: the findings of validateAllData are, in this order, the field-level
\* findings of every client, of every worker and of every task in collection
\* order, then the duplicate-ID findings, then the phase-saturation findings,
\* then the circular-dependency findings.
C2_FindingsOrder ==
  rendered =>
    validation.errors =
      Concat([i \in 1..Len(clients) |-> validateClient(clients[i], tasks)])
        \o Concat([i \in 1..Len(workers) |-> validateWorker(workers[i])])
        \o Concat([i \in 1..Len(tasks) |-> validateTask(tasks[i], workers)])
        \o validateDuplicateIds(clients, workers, tasks)
        \o validateSchedulingFeasibility(clients, workers, tasks)
        \o validateCircularDependencies(tasks)

\* C2, witness: a validated state in which each of the six parts is non-empty
\* and the task part comes from two rows.
C2_AllPartsPresent ==
  /\ rendered
  /\ ClientErrors(clients, tasks) # <<>>
  /\ WorkerErrors(workers) # <<>>
  /\ Len(tasks) = 2
  /\ validateTask(tasks[1], workers) # <<>>
  /\ validateTask(tasks[2], workers) # <<>>
  /\ validateDuplicateIds(clients, workers, tasks) # <<>>
  /\ validateSchedulingFeasibility(clients, workers, tasks) # <<>>
  /\ validateCircularDependencies(tasks) # <<>>

\* ------------------------------------------------------------------------
\* Duplicate identifiers
\* ------------------------------------------------------------------------
\* The identifier value of a row: its cell as the validators read it.
IdOf(rows, idField, i) == getStringValue(rows[i][idField])
RowsWith(rows, idField, id) == {i \in 1..Len(rows) : IdOf(rows, idField, i) = id}
\* "Row <position>" of the rows that carry id, positions counted from 1, in
\* upload order; the message joins them with ', '.
RowNames(rows, idField, id) ==
  LET positions == SelectSeq([i \in 1..Len(rows) |-> i],
                             LAMBDA i : IdOf(rows, idField, i) = id)
  IN [k \in 1..Len(positions) |-> Str("Row " \o NatToStr(positions[k]))]
DuplicateFindings(errors, entityType, idField) ==
  SelectSeq(errors, LAMBDA e : /\ e.entityType = entityType
                               /\ e.field = idField
                               /\ StartsWith(e.message.text, "Duplicate "))
DuplicatesReported(rows, entityType, idField) ==
  LET found == DuplicateFindings(validation.errors, entityType, idField)
      shared == {id \in {IdOf(rows, idField, i) : i \in 1..Len(rows)} \ {""} :
                   Cardinality(RowsWith(rows, idField, id)) >= 2}
  IN /\ \A id \in shared :
          Cardinality({k \in 1..Len(found) : found[k].rowId = Str(id)}) = 1
     /\ \A k \in 1..Len(found) :
          /\ found[k].rowId.s \in shared
          /\ found[k].severity = "error"
          /\ found[k].message.args = RowNames(rows, idField, found[k].rowId.s)

\* C4: for each of the three collections independently, the validation holds
\* exactly one error finding for every non-empty identifier value that occurs
\* in two or more rows, and its message names the 1-based positions, in
\* upload order, of all rows sharing that value; a value that occurs in one
\* row, and empty identifiers, get no duplicate finding.
C4_DuplicateFindings ==
  rendered =>
    /\ DuplicatesReported(clients, "clients", "ClientID")
    /\ DuplicatesReported(workers, "workers", "WorkerID")
    /\ DuplicatesReported(tasks, "tasks", "TaskID")

\* C4, witness: three client rows of which the first and the third share an
\* identifier, the second has one of its own, and the worker and task sheets
\* each repeat an identifier too.
C4_SharedUniqueAndOthers ==
  /\ rendered
  /\ Len(clients) = 3
  /\ IdOf(clients, "ClientID", 1) = IdOf(clients, "ClientID", 3)
  /\ IdOf(clients, "ClientID", 2) \notin {"", IdOf(clients, "ClientID", 1)}
  /\ clients[1] # clients[3]
  /\ Len(DuplicateFindings(validation.errors, "clients", "ClientID")) = 1
  /\ Len(DuplicateFindings(validation.errors, "workers", "WorkerID")) = 1
  /\ Len(DuplicateFindings(validation.errors, "tasks", "TaskID")) = 1

\* ------------------------------------------------------------------------
\* Dependency cycles
\* ------------------------------------------------------------------------
CycleFindings(errors) ==
  SelectSeq(errors, LAMBDA e : /\ e.entityType = "tasks"
                               /\ e.field = "Dependencies"
                               /\ StartsWith(e.message.text, "Circular dependency"))
\* Two tasks that depend on each other and on nothing else.
MutualPair ==
  /\ Len(tasks) = 2
  /\ tasks[1].TaskID # tasks[2].TaskID
  /\ tasks[1].Dependencies = tasks[2].TaskID
  /\ tasks[2].Dependencies = tasks[1].TaskID
\* The identifier chain of a message; the message joins it with ' -> '.
Chain(e) == e.message.args
ClosedChain(chain) == Len(chain) >= 2 /\ chain[Len(chain)] = chain[1]

\* C5 (as the code has it): for two tasks that depend on each other, the
\* validation holds one error finding on field Dependencies for each of the
\* two, and the message of each carries the identifiers of the cycle once
\* each, in the order the traversal met them, starting from the task of the
\* first row: the chain T1 -> T2, which does not return to T1.
C5_MutualPairOpenChain ==
  (rendered /\ MutualPair) =>
    LET found == CycleFindings(validation.errors)
        chain == <<tasks[1].TaskID, tasks[2].TaskID>>
    IN /\ Len(found) = 2
       /\ \A k \in 1..2 :
            /\ found[k].rowId = tasks[k].TaskID
            /\ found[k].severity = "error"
            /\ Chain(found[k]) = chain

\* C5, witness: T1 (Dependencies "T2") and T2 (Dependencies "T1"), validated.
C5_T1T2Validated ==
  /\ rendered
  /\ tasks = <<GraphTask("T1", "T2"), GraphTask("T2", "T1")>>
  /\ CycleFindings(validation.errors) # <<>>

\* C5 (as stated): for T1 (Dependencies "T2") and T2 (Dependencies "T1"),
\* both tasks get an error finding on field Dependencies whose message
\* contains the closed chain T1 -> T2 -> T1 or a rotation of it.
C5_MutualPairClosedChain ==
  (rendered /\ MutualPair) =>
    LET found == CycleFindings(validation.errors)
    IN \A t \in 1..2 :
         \E k \in 1..Len(found) :
           /\ found[k].rowId = tasks[t].TaskID
           /\ found[k].severity = "error"
           /\ ClosedChain(Chain(found[k]))
           /\ Len(Chain(found[k])) = 3
           /\ {Chain(found[k])[n] : n \in 1..3} = {tasks[1].TaskID, tasks[2].TaskID}

\* The dependency graph the claims speak of: the declared TaskIDs, and an
\* edge from a task to every declared task its Dependencies cell lists.
DeclaredIds == {tasks[i].TaskID : i \in 1..Len(tasks)}
DependsOn(a, b) ==
  /\ b \in DeclaredIds
  /\ \E i \in 1..Len(tasks) :
       tasks[i].TaskID = a /\ Includes(ListOf(tasks[i].Dependencies), b)
RECURSIVE ReachableWithin(_, _)
ReachableWithin(a, n) ==
  IF n = 0 THEN {}
  ELSE LET near == ReachableWithin(a, n - 1)
       IN near \cup {b \in DeclaredIds : DependsOn(a, b)}
               \cup {b \in DeclaredIds : \E c \in near : DependsOn(c, b)}
OnCycle(a) == a \in ReachableWithin(a, Len(tasks))

\* C6: every task that lies on at least one dependency cycle among the
\* declared tasks has at least one error finding on field Dependencies,
\* whatever the order of the rows and of the identifiers inside each
\* Dependencies cell (stated for sheets whose TaskIDs are all different).
C6_EveryCycleTaskFlagged ==
  (rendered /\ Cardinality(DeclaredIds) = Len(tasks)) =>
    \A a \in DeclaredIds :
      OnCycle(a) =>
        \E k \in 1..Len(CycleFindings(validation.errors)) :
          /\ CycleFindings(validation.errors)[k].rowId = a
          /\ CycleFindings(validation.errors)[k].severity = "error"

NoRepeat(seq) == \A i, j \in 1..Len(seq) : i # j => seq[i] # seq[j]

\* C7: a run of detectCircularDependencies terminates, also on graphs with
\* self-loops and cycles of several nodes, and walks the neighbours of each
\* node at most once over the whole run, although dfs is started again from
\* every node graph.forEach finds unvisited.
C7_TerminatesWithoutReexpansion ==
  [](NoRepeat(expanded)) /\ <>DfsDone

\* C7, witness: a finished run over three tasks that reported a self-loop
\* and a cycle of two nodes and walked the neighbours of all three.
C7_FinishedOnCyclicGraph ==
  /\ DfsDone
  /\ Len(graph) = 3
  /\ Len(expanded) = 3
  /\ \E c \in 1..Len(cycles) : Len(cycles[c]) = 1
  /\ \E c \in 1..Len(cycles) : Len(cycles[c]) >= 2

\* The task sheet with every Dependencies entry that names no declared task
\* taken out of its cell.
Declared(id) == id \in DeclaredIds
PrunedCell(cell) ==
  LET kept == SelectSeq(ListOf(cell), Declared)
  IN Str(JoinStr([i \in 1..Len(kept) |-> kept[i].s], ","))
PrunedTasks == [i \in 1..Len(tasks) |-> [tasks[i] EXCEPT !.Dependencies = PrunedCell(@)]]
DanglingListed(i) ==
  \E n \in 1..Len(ListOf(tasks[i].Dependencies)) :
    ~Declared(ListOf(tasks[i].Dependencies)[n])

\* C8: a Dependencies entry that names no task of the collection is a dead
\* end: dfs is never called on it, it never enters visited or a reported
\* cycle, and the run reports exactly the cycles it reports for the sheet
\* without that entry, so the entry by itself causes no finding.
C8_DanglingIsDeadEnd ==
  /\ \A f \in 1..Len(callStack) : Declared(callStack[f].node)
  /\ \A id \in visited \cup recursionStack : Declared(id)
  /\ \A n \in 1..Len(expanded) : Declared(expanded[n])
  /\ \A c \in 1..Len(cycles) : \A n \in 1..Len(cycles[c]) : Declared(cycles[c][n])
  /\ DfsDone => cycles = detectCircularDependencies(PrunedTasks)

\* C8, witness: a finished run in which a task on a reported cycle lists an
\* undeclared task ahead of the declared one that closes the cycle.
C8_CycleThroughTaskWithDangling ==
  /\ DfsDone
  /\ \E i \in 1..Len(tasks) :
       /\ DanglingListed(i)
       /\ ~Declared(ListOf(tasks[i].Dependencies)[1])
       /\ \E c \in 1..Len(cycles) : \E n \in 1..Len(cycles[c]) :
            cycles[c][n] = tasks[i].TaskID

\* ------------------------------------------------------------------------
\* Malformed input
\* ------------------------------------------------------------------------
HasFinding(entityType, id, field) ==
  \E k \in 1..Len(validation.errors) :
    /\ validation.errors[k].entityType = entityType
    /\ validation.errors[k].rowId = Str(getStringValue(id))
    /\ validation.errors[k].field = field
Unparseable(v) == Truthy(v) /\ ~JsonParse(StringOf(v)).ok
NonNumeric(v) == Present(v) /\ IsNaN(ToNumber(v))
Slot(v) ==
  /\ v.t = "object"
  /\ TypeOf(GetProp(v, "start")) = "string"
  /\ TypeOf(GetProp(v, "end")) = "string"
MalformedSlots(v) ==
  /\ Truthy(v)
  /\ LET slots == IF IsArray(v) THEN v ELSE safeJsonParse(v)
     IN ~(IsArray(slots) /\ \A n \in 1..Len(slots.a) : Slot(slots.a[n]))
MissingReference(v) ==
  \E n \in 1..Len(ListOf(v)) :
    \A i \in 1..Len(tasks) : tasks[i].TaskID # ListOf(v)[n]
Empty(v) == getStringValue(v) = ""

\* C9: validateAllData never throws, whatever the cells of the rows hold, and
\* every defect becomes a finding on the field that has it: malformed JSON,
\* a malformed array, a non-numeric number, a reference to a missing task, a
\* missing field.
C9_EveryDefectBecomesFinding ==
  rendered =>
    /\ \A i \in 1..Len(clients) :
         LET c == clients[i]
         IN /\ Empty(c.ClientID) => HasFinding("clients", c.ClientID, "ClientID")
            /\ Empty(c.Name) => HasFinding("clients", c.ClientID, "Name")
            /\ Unparseable(c.AttributesJSON)
                 => HasFinding("clients", c.ClientID, "AttributesJSON")
            /\ MissingReference(c.RequestedTaskIDs)
                 => HasFinding("clients", c.ClientID, "RequestedTaskIDs")
    /\ \A i \in 1..Len(workers) :
         LET w == workers[i]
         IN /\ Empty(w.WorkerID) => HasFinding("workers", w.WorkerID, "WorkerID")
            /\ MalformedSlots(w.AvailableSlots)
                 => HasFinding("workers", w.WorkerID, "AvailableSlots")
            /\ NonNumeric(w.MaxLoadPerPhase)
                 => HasFinding("workers", w.WorkerID, "MaxLoadPerPhase")
    /\ \A i \in 1..Len(tasks) :
         LET t == tasks[i]
         IN /\ Empty(t.TaskID) => HasFinding("tasks", t.TaskID, "TaskID")
            /\ NonNumeric(t.Duration) => HasFinding("tasks", t.TaskID, "Duration")
            /\ NonNumeric(t.MaxConcurrent)
                 => HasFinding("tasks", t.TaskID, "MaxConcurrent")

\* The AttributesJSON findings of the validation, and the clients that are
\* due one: AttributesJSON present and not the text of a JSON object.
AttributesFindings ==
  SelectSeq(validation.errors, LAMBDA e : /\ e.entityType = "clients"
                                          /\ e.field = "AttributesJSON")
JsonObjectText(v) ==
  /\ JsonParse(StringOf(v)).ok
  /\ JsonParse(StringOf(v)).v.t = "object"
AttributesOffenders ==
  SelectSeq(clients, LAMBDA c : /\ Truthy(c.AttributesJSON)
                                /\ ~JsonObjectText(c.AttributesJSON))

\* C10: a client whose AttributesJSON is present gets exactly one error
\* finding on field AttributesJSON when the value does not parse as JSON or
\* parses to anything but a JSON object (a JSON array or a scalar included),
\* and no AttributesJSON finding when it parses to a JSON object.
C10_OneErrorUnlessJsonObject ==
  rendered =>
    /\ Len(AttributesFindings) = Len(AttributesOffenders)
    /\ \A k \in 1..Len(AttributesFindings) :
         /\ AttributesFindings[k].severity = "error"
         /\ k <= Len(AttributesOffenders)
              => AttributesFindings[k].rowId
                   = Str(getStringValue(AttributesOffenders[k].ClientID))

\* ------------------------------------------------------------------------
\* Field checks of workers and tasks
\* ------------------------------------------------------------------------
\* The findings of the validation on one field of the rows that carry id.
FieldFindings(entityType, id, field, severity) ==
  SelectSeq(validation.errors,
            LAMBDA e : /\ e.entityType = entityType
                       /\ e.rowId = Str(getStringValue(id))
                       /\ e.field = field
                       /\ e.severity = severity)
\* The rows of a sheet whose identifier reads as id and that satisfy Test.
RowsSuchThat(rows, idField, id, Test(_)) ==
  {i \in 1..Len(rows) : IdOf(rows, idField, i) = getStringValue(id) /\ Test(rows[i])}
HasMalformedSlots(worker) == MalformedSlots(worker.AvailableSlots)

\* C11: a worker whose AvailableSlots is present gets an error finding on
\* field AvailableSlots unless the value is an array whose every element is
\* an object with a string start and a string end (one error per such
\* worker, none for the others), and a worker with malformed slots gets no
\* slots-versus-MaxLoadPerPhase warning.
C11_MalformedSlotsReported ==
  rendered =>
    \A i \in 1..Len(workers) :
      /\ Len(FieldFindings("workers", workers[i].WorkerID, "AvailableSlots", "error"))
           = Cardinality(RowsSuchThat(workers, "WorkerID", workers[i].WorkerID,
                                      HasMalformedSlots))
      /\ Len(FieldFindings("workers", workers[i].WorkerID, "AvailableSlots", "warning"))
           <= Cardinality(RowsSuchThat(workers, "WorkerID", workers[i].WorkerID,
                                       LAMBDA w : ~HasMalformedSlots(w)))

\* The sessions of the range checks: one worker sheet and one task sheet of at
\* most one row, whose MaxLoadPerPhase and PriorityLevel cells run over the
\* integers -1..MaxLevel as numbers and as numerals, and over 1.5.
MaxLevel == 6
Numeral(n) == Str(NatToStr(n))
LevelCells ==
  {IntV(n) : n \in -1..MaxLevel} \cup {Numeral(n) : n \in 0..MaxLevel} \cup {Num(3)}
LevelWorkers == {Worker(Str("W1"), Str("weld"), Undefined, c) : c \in LevelCells}
LevelTasks ==
  {Task(Str("T1"), IntV(2), c, Undefined, Str("weld"), IntV(1), Str("")) : c \in LevelCells}

InitRange == Uploaded({<<>>}, Sheets(LevelWorkers, 1), Sheets(LevelTasks, 1))

NextRange == Render

SpecRange == InitRange /\ [][NextRange]_vars

\* The cell holds the integer n, as a number or as its numeral.
Reads(cell, n) == cell = IntV(n) \/ (n >= 0 /\ cell = Numeral(n))

\* C12: the range checks are inclusive at the documented boundaries: a worker
\* whose MaxLoadPerPhase is an integer gets an error on MaxLoadPerPhase iff
\* the integer is <= 0 (0 is reported, 1 is not), and a task whose
\* PriorityLevel is an integer gets an error on PriorityLevel iff the integer
\* is outside [1,5] (0 and 6 are reported, 1 and 5 are not).
C12_InclusiveBoundaries ==
  rendered =>
    \A n \in -1..MaxLevel :
      /\ \A i \in 1..Len(workers) :
           Reads(workers[i].MaxLoadPerPhase, n) =>
             (HasFinding("workers", workers[i].WorkerID, "MaxLoadPerPhase") <=> n <= 0)
      /\ \A i \in 1..Len(tasks) :
           Reads(tasks[i].PriorityLevel, n) =>
             (HasFinding("tasks", tasks[i].TaskID, "PriorityLevel") <=> (n < 1 \/ n > 5))
\* A validated workbook with MaxLoadPerPhase 0 (reported) and PriorityLevel 5
\* (accepted).
C12_ZeroLoadAndLevelFive ==
  /\ rendered
  /\ Len(workers) = 1 /\ Len(tasks) = 1
  /\ workers[1].MaxLoadPerPhase = IntV(0)
  /\ tasks[1].PriorityLevel = Numeral(5)
  /\ HasFinding("workers", Str("W1"), "MaxLoadPerPhase")
  /\ ~HasFinding("tasks", Str("T1"), "PriorityLevel")

\* The sessions of the skill match: a worker sheet of at most MaxSkillWorkers
\* rows and a task sheet of at most one row, whose Skills and RequiredSkills
\* cells are comma-separated lists (one of them without any name).
MaxSkillWorkers == 2
SkillCells == {Str("weld"), Str("paint, weld"), Str("fly"), Str(","), Str("")}
SkillWorkers == {Worker(Str("W1"), c, Undefined, IntV(1)) : c \in SkillCells}
SkillTasks ==
  {Task(Str("T1"), IntV(2), IntV(1), Undefined, c, Undefined, Str("")) :
     c \in (SkillCells \cup {Str("weld,paint"), Undefined})}

InitSkills ==
  Uploaded({<<>>}, Sheets(SkillWorkers, MaxSkillWorkers), Sheets(SkillTasks, 1))

NextSkills == Render

SpecSkills == InitSkills /\ [][NextSkills]_vars

\* The set of skill names a cell lists (none when the cell is absent or empty).
SkillSet(cell) ==
  IF Truthy(cell) THEN {ListOf(cell)[k] : k \in 1..Len(ListOf(cell))} ELSE {}
NoMatchFindings(task) ==
  FieldFindings("tasks", task.TaskID, "RequiredSkills", "error")

\* C13 as stated: a task with RequiredSkills present gets an error finding on
\* RequiredSkills exactly when no worker has a skill set that is a superset
\* of the task's required skills.
C13_ErrorIffNoSuperset ==
  rendered =>
    \A i \in 1..Len(tasks) :
      Truthy(tasks[i].RequiredSkills) =>
        (NoMatchFindings(tasks[i]) # <<>>
           <=> ~\E j \in 1..Len(workers) :
                 SkillSet(tasks[i].RequiredSkills) \subseteq SkillSet(workers[j].Skills))
\* C13: a task with RequiredSkills present gets exactly one error finding on
\* RequiredSkills when no worker with a non-empty Skills cell has a skill set
\* that is a superset of the task's required skills (in particular when
\* there is no worker), and none when such a worker exists.
C13_ErrorIffNoSkilledSuperset ==
  rendered =>
    \A i \in 1..Len(tasks) :
      Truthy(tasks[i].RequiredSkills) =>
        Len(NoMatchFindings(tasks[i])) =
          (IF \E j \in 1..Len(workers) :
                /\ Truthy(workers[j].Skills)
                /\ SkillSet(tasks[i].RequiredSkills) \subseteq SkillSet(workers[j].Skills)
           THEN 0 ELSE 1)
\* A validated workbook whose task requires two skills of which every worker
\* has only one: the error is reported.
C13_PartialMatchReported ==
  /\ rendered
  /\ Len(tasks) = 1 /\ Len(workers) = 2
  /\ SkillSet(tasks[1].RequiredSkills) = {Str("weld"), Str("paint")}
  /\ SkillSet(workers[1].Skills) = {Str("weld")}
  /\ SkillSet(workers[2].Skills) = {Str("fly")}
  /\ Len(NoMatchFindings(tasks[1])) = 1

\* ------------------------------------------------------------------------
\* Editing sessions: cell edits in the grid and the AI fix dialog
\* ------------------------------------------------------------------------
MaxEdits == 1

\* The spread read as { ...newRow, ...row }: the row's own cells win
Merge_RowWins(row, newRow) ==
  [k \in DOMAIN row \cup DOMAIN newRow |->
     IF k \in DOMAIN row THEN row[k] ELSE newRow[k]]

\* { ...row, ...newRow }
Merge(row, newRow) ==
  [k \in DOMAIN row \cup DOMAIN newRow |->
     IF k \in DOMAIN newRow THEN newRow[k] ELSE row[k]]

IdField(type) ==
  CASE type = "clients" -> "ClientID"
    [] type = "workers" -> "WorkerID"
    [] OTHER -> "TaskID"

\* The singular the grid prefixes its row ids with.
RowPrefix(type) ==
  CASE type = "clients" -> "client"
    [] type = "workers" -> "worker"
    [] OTHER -> "task"

Collection(type) ==
  CASE type = "clients" -> clients
    [] type = "workers" -> workers
    [] OTHER -> tasks

\* tasksWithIds: { ...task, id: task.TaskID ? `task-${task.TaskID}-${index}`
\*                                          : `task-${index}` }
GridRow(type, row, index) ==
  Merge(row,
        [id |-> Str(RowPrefix(type) \o "-"
                      \o (IF Truthy(row[IdField(type)])
                          THEN StringOf(row[IdField(type)]) \o "-" ELSE "")
                      \o NatToStr(index))])

\* rows.map(row => row.TaskID === oldRow.TaskID ? { ...row, ...newRow } : row)
\* (=== on cells: strings, numbers and undefined)
handleProcessRowUpdate(rows, newRow, oldRow, idField) ==
  [i \in 1..Len(rows) |->
     IF rows[i][idField] = oldRow[idField] THEN Merge(rows[i], newRow) ELSE rows[i]]

\* handleDataUpdate(type, data): the setter of one collection
\* A handleDataUpdate that would add the rows to those already held.
DataUpdate_Append(type, data) ==
  /\ clients' = IF type = "clients" THEN clients \o data ELSE clients
  /\ workers' = IF type = "workers" THEN workers \o data ELSE workers
  /\ tasks' = IF type = "tasks" THEN tasks \o data ELSE tasks

DataUpdate(type, data) ==
  /\ clients' = IF type = "clients" THEN data ELSE clients
  /\ workers' = IF type = "workers" THEN data ELSE workers
  /\ tasks' = IF type = "tasks" THEN data ELSE tasks

Edit(type, oldRow, newRow) == [type |-> type, oldRow |-> oldRow, newRow |-> newRow]

\* The cell edits of the sessions: the text the user commits in one column.
CellEdits ==
  { [type |-> "tasks", field |-> "Duration", value |-> Str("5")],
    [type |-> "workers", field |-> "MaxLoadPerPhase", value |-> Str("2")] }

\* processRowUpdate of the grid of one collection: the user commits an edit of
\* one cell of the row at position i.
ProcessRowUpdate(cell, i, oldRow) ==
  /\ DataUpdate(cell.type,
                handleProcessRowUpdate(Collection(cell.type),
                                       [oldRow EXCEPT ![cell.field] = cell.value],
                                       oldRow, IdField(cell.type)))
  /\ edits' = Append(edits, Edit(cell.type, oldRow,
                                 [oldRow EXCEPT ![cell.field] = cell.value]))
  /\ rendered' = FALSE
  /\ UNCHANGED <<validation, dialog, dfsVars, rulesVars, adviceVars>>

EditCell ==
  /\ rendered /\ dialog = NoDialog /\ Len(edits) < MaxEdits
  /\ \E cell \in CellEdits :
       \E i \in 1..Len(Collection(cell.type)) :
         ProcessRowUpdate(cell, i, GridRow(cell.type, Collection(cell.type)[i], i - 1))

\* ---- aiService.ts ----
\* response.match(/\{[\s\S]*\}/): from the first { to the last }
LastIndexOfChar(s, c) ==
  IF \E i \in 1..Len(s) : Char(s, i) = c
  THEN CHOOSE i \in 1..Len(s) : Char(s, i) = c /\ \A j \in (i + 1)..Len(s) : Char(s, j) # c
  ELSE 0

JsonMatch(response) ==
  IF IndexOfChar(response, "{") > 0
     /\ LastIndexOfChar(response, "}") > IndexOfChar(response, "{")
  THEN Str(SubSeq(response, IndexOfChar(response, "{"), LastIndexOfChar(response, "}")))
  ELSE Null

AIErrorFix(suggestedValue, explanation, confidence) ==
  [suggestedValue |-> suggestedValue, explanation |-> explanation,
   confidence |-> confidence]

\* Math.max(0, Math.min(100, confidence))
ClampConfidence(confidence) ==
  IF IsNaN(confidence) THEN NaN
  ELSE IF Gt(confidence, IntV(100)) THEN IntV(100)
  ELSE IF Lt(confidence, IntV(0)) THEN IntV(0)
  ELSE confidence

FallbackFix ==
  AIErrorFix("", "Unable to parse AI response. Please fix manually.", IntV(0))

\* The part of parseAIResponse after JSON.parse: r is its outcome.
ParsedFix(r) ==
  IF ~r.ok
     \/ ~Truthy(GetProp(r.v, "suggestedValue"))
     \/ ~Truthy(GetProp(r.v, "explanation"))
     \/ TypeOf(GetProp(r.v, "confidence")) # "number"
  THEN FallbackFix
  ELSE AIErrorFix(StringOf(GetProp(r.v, "suggestedValue")),
                  StringOf(GetProp(r.v, "explanation")),
                  ClampConfidence(GetProp(r.v, "confidence")))

parseAIResponse(response) ==
  IF JsonMatch(response) = Null THEN FallbackFix
  ELSE ParsedFix(JsonParse(JsonMatch(response).s))

\* arr[n], n counted from 0
At(arr, n) == IF IsArray(arr) /\ n < Len(arr.a) THEN arr.a[n + 1] ELSE Undefined

Threw(message) == [threw |-> TRUE, message |-> message]
Returned(value) == [threw |-> FALSE, value |-> value]

\* getErrorFixSuggestion(request), by the environment of the request: the
\* configured key and the outcome of fetch (rejected, or a response with ok,
\* status line and body).
getErrorFixSuggestion(apiKey, response) ==
  IF ~Truthy(apiKey)
  THEN Threw("Gemini API key not found. Please set NEXT_PUBLIC_GEMINI_API_KEY environment variable.")
  ELSE IF response.rejected THEN Threw("Failed to fetch")
  ELSE IF ~response.ok THEN Threw("API request failed: " \o response.status)
  ELSE IF ~Truthy(GetProp(response.data, "candidates"))
          \/ ~Truthy(At(GetProp(response.data, "candidates"), 0))
          \/ ~Truthy(GetProp(At(GetProp(response.data, "candidates"), 0), "content"))
  THEN Threw("Invalid response format from Gemini API")
  ELSE Returned(parseAIResponse(
         GetProp(At(GetProp(GetProp(At(GetProp(response.data, "candidates"), 0),
                                    "content"), "parts"), 0), "text").s))

\* ---- ErrorFixDialog ----
\* The environment of a request: NEXT_PUBLIC_GEMINI_API_KEY and what fetch
\* delivers.
ApiKeys == {Undefined, Str("key")}
Rejected == [rejected |-> TRUE, ok |-> FALSE, status |-> "", data |-> Undefined]
Response(ok, status, data) ==
  [rejected |-> FALSE, ok |-> ok, status |-> status, data |-> data]
Generated(text) ==
  Obj(<<[k |-> "candidates",
         v |-> Arr(<<Obj(<<[k |-> "content",
                           v |-> Obj(<<[k |-> "parts",
                                       v |-> Arr(<<Obj(<<[k |-> "text",
                                                         v |-> Str(text)]>>)>>)]>>)]>>)>>)]>>)
Answers ==
  { "{\"suggestedValue\":\"5\",\"explanation\":\"ok\",\"confidence\":85}",
    "Fix: {\"suggestedValue\":\"T2\",\"explanation\":\"ok\",\"confidence\":30} ",
    "{\"suggestedValue\":5,\"explanation\":\"ok\",\"confidence\":20}",
    "Sorry, no fix." }
Responses ==
  {Rejected, Response(FALSE, "500 Internal Server Error", Undefined),
   Response(TRUE, "200 OK", Obj(<<>>)),
   Response(TRUE, "200 OK", Obj(<<[k |-> "candidates", v |-> Arr(<<>>)]>>))}
    \cup {Response(TRUE, "200 OK", Generated(text)) : text \in Answers}

Dialog(error, aiSuggestion, loading, apiError) ==
  [error |-> error, aiSuggestion |-> aiSuggestion, loading |-> loading,
   apiError |-> apiError]

\* ValidationSummary.handleFixError(error): the dialog opens on one finding.
OpenFixDialog ==
  /\ rendered /\ dialog = NoDialog
  /\ \E k \in 1..Len(validation.errors) :
       dialog' = Dialog(validation.errors[k], Null, FALSE, Null)
  /\ UNCHANGED <<dataVars, edits, dfsVars, rulesVars, adviceVars>>

\* handleGetSuggestion up to the await; the button shows while
\* !aiSuggestion && !loading.
GetSuggestion ==
  /\ dialog # NoDialog /\ dialog.aiSuggestion = Null /\ ~dialog.loading
  /\ dialog' = [dialog EXCEPT !.loading = TRUE, !.apiError = Null]
  /\ UNCHANGED <<dataVars, edits, dfsVars, rulesVars, adviceVars>>

\* The rejection read as uncaught: it reaches the page, which starts over
\* with empty collections
SuggestionFailed_Fatal ==
  /\ dialog # NoDialog /\ dialog.loading
  /\ \E apiKey \in ApiKeys, response \in Responses :
       getErrorFixSuggestion(apiKey, response).threw
  /\ clients' = <<>> /\ workers' = <<>> /\ tasks' = <<>>
  /\ validation' = FirstRender /\ rendered' = TRUE
  /\ dialog' = NoDialog
  /\ UNCHANGED <<edits, dfsVars, rulesVars, adviceVars>>

\* handleGetSuggestion after the await, when getErrorFixSuggestion threw:
\* catch (err) { setApiError(err.message) } finally { setLoading(false) }
SuggestionFailed ==
  /\ dialog # NoDialog /\ dialog.loading
  /\ \E apiKey \in ApiKeys, response \in Responses :
       /\ getErrorFixSuggestion(apiKey, response).threw
       /\ dialog' = [dialog EXCEPT
                       !.apiError = Str(getErrorFixSuggestion(apiKey, response).message),
                       !.loading = FALSE]
  /\ UNCHANGED <<dataVars, edits, dfsVars, rulesVars, adviceVars>>

\* ... and when it returned: setAiSuggestion(suggestion)
SuggestionReceived ==
  /\ dialog # NoDialog /\ dialog.loading
  /\ \E apiKey \in ApiKeys, response \in Responses :
       /\ ~getErrorFixSuggestion(apiKey, response).threw
       /\ dialog' = [dialog EXCEPT
                       !.aiSuggestion = getErrorFixSuggestion(apiKey, response).value,
                       !.loading = FALSE]
  /\ UNCHANGED <<dataVars, edits, dfsVars, rulesVars, adviceVars>>

\* <Button onClick={handleApplyFix} disabled={aiSuggestion.confidence < 30}>
ApplyFixDisabled(aiSuggestion) == Lt(aiSuggestion.confidence, IntV(30))

\* data.findIndex(row => String(row[idField]) === error.rowId), from 1; 0: none
FindRow(rows, idField, rowId) ==
  IF \E i \in 1..Len(rows) : StringOf(rows[i][idField]) = rowId.s
  THEN CHOOSE i \in 1..Len(rows) :
         /\ StringOf(rows[i][idField]) = rowId.s
         /\ \A j \in 1..(i - 1) : StringOf(rows[j][idField]) # rowId.s
  ELSE 0

\* TablesSection.handleFixError(error, suggestedValue), rowIndex found
FixError(error, suggestedValue, rows, rowIndex) ==
  IF rowIndex = 0
  THEN UNCHANGED <<clients, workers, tasks, rendered, edits>>
  ELSE /\ DataUpdate(error.entityType,
                     [rows EXCEPT ![rowIndex] =
                        Merge(rows[rowIndex], (error.field :> Str(suggestedValue)))])
       /\ rendered' = FALSE
       /\ edits' = Append(edits,
                          Edit(error.entityType, rows[rowIndex],
                               Merge(rows[rowIndex], (error.field :> Str(suggestedValue)))))

\* handleApplyFix: onApplyFix(error, aiSuggestion.suggestedValue); onClose()
ApplyFix ==
  /\ dialog # NoDialog /\ dialog.aiSuggestion # Null
  /\ ~ApplyFixDisabled(dialog.aiSuggestion)
  /\ Len(edits) < MaxEdits
  /\ FixError(dialog.error, dialog.aiSuggestion.suggestedValue,
              Collection(dialog.error.entityType),
              FindRow(Collection(dialog.error.entityType),
                      IdField(dialog.error.entityType), dialog.error.rowId))
  /\ dialog' = NoDialog
  /\ UNCHANGED <<validation, dfsVars, rulesVars, adviceVars>>

\* onClose: Cancel, or a click outside the dialog; the component unmounts
CloseDialog ==
  /\ dialog # NoDialog
  /\ dialog' = NoDialog
  /\ UNCHANGED <<dataVars, edits, dfsVars, rulesVars, adviceVars>>

\* The editing sessions: a workbook of at most one worker and one or two
\* tasks, among them one of Duration 0, alone, next to another task or next
\* to a row that repeats its TaskID.
SessionWorkers == {Worker(Str("W1"), Str("weld"), Str(""), IntV(1))}
SessionTasks ==
  LET IdleTask ==
        Task(Str("T1"), IntV(0), IntV(1), Str("[1]"), Str("weld"), IntV(1), Str(""))
      OtherTask ==
        Task(Str("T2"), IntV(2), IntV(1), Str("[1,2]"), Str("weld"), IntV(1), Str("T1"))
      RepeatedTask ==
        Task(Str("T1"), Str("0"), IntV(9), Str(""), Str("weld"), IntV(1), Str(""))
  IN {<<IdleTask>>, <<IdleTask, OtherTask>>, <<OtherTask, IdleTask>>,
      <<IdleTask, RepeatedTask>>}

InitSession == Uploaded({<<>>}, Sheets(SessionWorkers, 1), SessionTasks)

NextSession ==
  \/ Render
  \/ EditCell
  \/ OpenFixDialog
  \/ GetSuggestion
  \/ SuggestionFailed
  \/ SuggestionReceived
  \/ ApplyFix
  \/ CloseDialog

SpecSession == InitSession /\ [][NextSession]_vars

\* ------------------------------------------------------------------------
\* Editing sessions: claims
\* ------------------------------------------------------------------------
\* The latest edit set the Duration of one task from 0 to 5, left its other
\* cells alone, and no other row carries the task's identifier.
LastEdit == edits[Len(edits)]
DurationRaised ==
  /\ edits # <<>>
  /\ LastEdit.type = "tasks"
  /\ LastEdit.oldRow.Duration \in {IntV(0), Str("0")}
  /\ LastEdit.newRow = [LastEdit.oldRow EXCEPT !.Duration = Str("5")]
  /\ Cardinality(RowsWith(tasks, "TaskID", getStringValue(LastEdit.oldRow.TaskID))) = 1
IsDurationErrorOf(e, id) ==
  e.entityType = "tasks" /\ e.rowId = Str(getStringValue(id)) /\ e.field = "Duration"
WithoutDurationError(errors, id) ==
  SelectSeq(errors, LAMBDA e : ~IsDurationErrorOf(e, id))
IsSaturation(e) == e.field = "Scheduling"
RowFindings(errors) == SelectSeq(errors, LAMBDA e : ~IsSaturation(e))
Phases(errors) == {errors[k].rowId : k \in {j \in 1..Len(errors) : IsSaturation(errors[j])}}

MaxPhase == 2
PhaseWorkers ==
  { Worker(Str("W1"), Str("weld"), Str("[{\"start\":\"9\",\"end\":\"17\"}]"), IntV(3)),
    Worker(Str("W2"), Str("weld"), Str(""), IntV(3)),
    Worker(Str("W3"), Str("weld"),
           Str("[{\"start\":\"9\",\"end\":\"12\"},{\"start\":\"13\",\"end\":\"17\"}]"),
           IntV(5)) }
PhaseTasks ==
  { Task(Str("T1"), IntV(2), IntV(1), Str("[1]"), Undefined, IntV(1), Str("")),
    Task(Str("T2"), IntV(3), IntV(1), Str("[1,2]"), Undefined, IntV(1), Str("")),
    Task(Str("T3"), IntV(2), IntV(1), Str("[1,1]"), Undefined, IntV(1), Str("")),
    Task(Str("T4"), IntV(0), IntV(1), Str("[2]"), Undefined, IntV(1), Str("")) }

InitPhases == Uploaded({<<>>}, Sheets(PhaseWorkers, 1), Sheets(PhaseTasks, MaxTasks))

NextPhases == Render

SpecPhases == InitPhases /\ [][NextPhases]_vars

\* The task lists phase p in its PreferredPhases.
ListsPhase(task, p) ==
  /\ IsArray(TaskPhases(task))
  /\ \E j \in 1..Len(TaskPhases(task).a) : TaskPhases(task).a[j] = IntV(p)
\* The sum of Duration over the first n tasks that list phase p.
RECURSIVE DurationSum(_, _)
DurationSum(p, n) ==
  IF n = 0 THEN 0
  ELSE DurationSum(p, n - 1)
         + (IF ListsPhase(tasks[n], p) THEN tasks[n].Duration.h \div 2 ELSE 0)
PhaseFindings(p) ==
  SelectSeq(validation.errors, LAMBDA e : e.rowId = Str("phase-" \o NatToStr(p)))
Capacity(p) == OrZero(MapGet(PhaseCapacity(workers), IntV(p))).h \div 2

\* C16: for each phase that some task lists, the demand is the sum of
\* Duration over the tasks that list the phase, and the validation holds
\* exactly one finding for the phase, a warning whose row identifier names the
\* phase, when that demand exceeds the capacity of the phase, and none
\* otherwise.
C16_OneWarningPerSaturatedPhase ==
  rendered =>
    \A p \in 1..MaxPhase :
      (\E i \in 1..Len(tasks) : ListsPhase(tasks[i], p)) =>
        IF DurationSum(p, Len(tasks)) > Capacity(p)
        THEN /\ Len(PhaseFindings(p)) = 1
             /\ PhaseFindings(p)[1].severity = "warning"
             /\ PhaseFindings(p)[1].message.args[2] = IntV(DurationSum(p, Len(tasks)))
        ELSE PhaseFindings(p) = <<>>

\* ------------------------------------------------------------------------
\* AI fix dialog: claims
\* ------------------------------------------------------------------------
\* The messages the dialog shows when a request has failed.
FailureNotices ==
  { Str("Gemini API key not found. Please set NEXT_PUBLIC_GEMINI_API_KEY environment variable."),
    Str("API request failed: 500 Internal Server Error"),
    Str("Invalid response format from Gemini API"),
    Str("Failed to fetch") }

\* C17: when an AI fix request fails (no API key, a non-OK response, a
\* response without candidates, a rejected fetch), the dialog shows the
\* failure as a message and stays open without a suggestion, and the three
\* collections and the findings are what they were before the request;
\* whatever the advisory service does, as long as the dialog is open the
\* findings on display are those of validateAllData on the current
\* collections.
C17_FailureIsNoticeOnly ==
  /\ [][SuggestionFailed =>
          /\ dialog' # NoDialog
          /\ dialog'.apiError \in FailureNotices
          /\ dialog'.aiSuggestion = Null /\ ~dialog'.loading
          /\ UNCHANGED <<clients, workers, tasks, validation, rendered>>]_vars
  /\ [](dialog # NoDialog =>
          rendered /\ validation = validateAllData(clients, workers, tasks))
\* The dialog shows that the API key is missing while the findings of the
\* workbook are on display.
C17_MissingKeyShown ==
  /\ dialog # NoDialog
  /\ dialog.apiError =
       Str("Gemini API key not found. Please set NEXT_PUBLIC_GEMINI_API_KEY environment variable.")
  /\ rendered /\ tasks # <<>>
  /\ validation.errors # <<>>
  /\ validation = validateAllData(clients, workers, tasks)

\* C18: a suggestion on display has changed no data (the collections are
\* those the findings on display were computed from), and it can be applied
\* whatever its confidence from 0 to 100: Apply Fix is never disabled.
C18_ApplicableAtEveryConfidence ==
  (dialog # NoDialog /\ dialog.aiSuggestion # Null) =>
    /\ rendered /\ validation = validateAllData(clients, workers, tasks)
    /\ Le(IntV(0), dialog.aiSuggestion.confidence)
    /\ Le(dialog.aiSuggestion.confidence, IntV(100))
    /\ ~ApplyFixDisabled(dialog.aiSuggestion)
\* The dialog shows a suggestion of confidence 20 with a value to apply.
C18_LowConfidenceShown ==
  /\ dialog # NoDialog /\ dialog.aiSuggestion # Null
  /\ dialog.aiSuggestion.confidence = IntV(20)
  /\ dialog.aiSuggestion.suggestedValue = "5"

\* ------------------------------------------------------------------------
\* Uploads: parseFile, detectEntityType, handleFileUpload
\* ------------------------------------------------------------------------
UpperCase == "ABCDEFGHIJKLMNOPQRSTUVWXYZ"
LowerCase == "abcdefghijklmnopqrstuvwxyz"

\* c.toLowerCase() for one character
LowerChar(c) ==
  IF IndexOfChar(UpperCase, c) > 0
  THEN Char(LowerCase, IndexOfChar(UpperCase, c))
  ELSE c

\* col.toLowerCase()
RECURSIVE ToLowerCase(_)
ToLowerCase(s) ==
  IF s = "" THEN "" ELSE LowerChar(Char(s, 1)) \o ToLowerCase(Tail(s))

\* new Set(columns.map(col => col.toLowerCase()))
ColumnSet(columns) == {ToLowerCase(columns[i]) : i \in 1..Len(columns)}

\* The part of detectEntityType after the Set is built.
EntityTypeOf(columnSet) ==
  IF "clientid" \in columnSet \/ "client_id" \in columnSet THEN "clients"
  ELSE IF "workerid" \in columnSet \/ "worker_id" \in columnSet
          \/ "employeeid" \in columnSet THEN "workers"
  ELSE IF "taskid" \in columnSet \/ "task_id" \in columnSet THEN "tasks"
  ELSE IF "name" \in columnSet /\ ("email" \in columnSet \/ "phone" \in columnSet)
  THEN (IF "position" \in columnSet \/ "department" \in columnSet
        THEN "workers" ELSE "clients")
  ELSE "tasks"

detectEntityType(columns) == EntityTypeOf(ColumnSet(columns))

\* The properties the validators read; a row without one of them reads
\* undefined.
RowFields ==
  {"ClientID", "Name", "AttributesJSON", "RequestedTaskIDs", "WorkerID", "Skills",
   "AvailableSlots", "MaxLoadPerPhase", "TaskID", "Duration", "PriorityLevel",
   "PreferredPhases", "RequiredSkills", "MaxConcurrent", "Dependencies"}

\* headers.forEach((header, colIndex) => { obj[header] = row[colIndex] || '' })
RowObject(headers, row) ==
  [f \in RowFields \cup {headers[i] : i \in 1..Len(headers)} |->
     IF \E i \in 1..Len(headers) : headers[i] = f
     THEN (LET c == CHOOSE i \in 1..Len(headers) :
                      headers[i] = f /\ \A j \in (i + 1)..Len(headers) : headers[j] # f
           IN IF c <= Len(row) /\ Truthy(row[c]) THEN row[c] ELSE Str(""))
     ELSE Undefined]

\* The objects of a sheet: its rows as objects, completely empty rows dropped.
SheetObjects(sheet) ==
  SelectSeq([r \in 1..Len(sheet.rows) |-> RowObject(sheet.headers, sheet.rows[r])],
            LAMBDA obj : \E i \in 1..Len(sheet.headers) :
                           obj[sheet.headers[i]] # Str(""))

Sheet(headers, rows) == [headers |-> headers, rows |-> rows]

\* The files of the upload sessions, one sheet each: the three sample files
\* of the documentation, a worker sheet and a task sheet in other spellings,
\* an assignment sheet, and sheets without identifier columns.
Files ==
  { Sheet(<<"ClientID", "Name", "Email", "Department">>,
          <<<<Str("CLI001"), Str("Acme Corp"), Str("acme@email.com"), Str("Technology")>>>>),
    Sheet(<<"WorkerID", "Name", "Email", "Department", "Position">>,
          <<<<Str("WRK001"), Str("John Smith"), Str("john@company.com"),
              Str("Technology"), Str("Developer")>>>>),
    Sheet(<<"TaskID", "Title", "Description", "ClientID", "WorkerID", "Priority", "DueDate">>,
          <<<<Str("TASK001"), Str("Website Redesign"), Str("Redesign company website"),
              Str("CLI001"), Str("WRK001"), Str("High"), Str("2024-02-15")>>>>),
    Sheet(<<"worker_id", "Skills", "MaxLoadPerPhase">>,
          <<<<Str("W1"), Str("weld"), IntV(1)>>, <<>>>>),
    Sheet(<<"TASKID", "Duration", "Dependencies">>,
          <<<<Str("T1"), IntV(2), Str("")>>, <<Str("T2"), IntV(0), Str("T1")>>>>),
    Sheet(<<"TaskID", "WorkerID", "Hours">>, <<<<Str("T1"), Str("W1"), IntV(4)>>>>),
    Sheet(<<"Name", "Email">>, <<<<Str("Acme"), Str("acme@email.com")>>>>),
    Sheet(<<"Name", "Phone", "Position">>, <<<<Str("John"), Str("555"), Str("Welder")>>>>),
    Sheet(<<"Title">>, <<<<Str("Untitled")>>>>) }

\* handleFileUpload for a file of one sheet: parseFile, then
\* onDataUpdate(fileData.type, fileData.data); a sheet without objects is
\* rejected ('No valid data found in the file') and nothing is updated.
UploadFile(sheet) ==
  /\ dialog = NoDialog
  /\ SheetObjects(sheet) # <<>>
  /\ DataUpdate(detectEntityType(sheet.headers), SheetObjects(sheet))
  /\ rendered' = FALSE
  /\ UNCHANGED <<validation, uiVars, dfsVars, rulesVars, adviceVars>>

Upload == \E sheet \in Files : UploadFile(sheet)

InitUpload == Uploaded({<<>>}, {<<>>}, {<<>>})

NextUpload == Upload \/ Render

SpecUpload == InitUpload /\ [][NextUpload]_vars

\* The sheet has a column spelled as the identifier, whatever the case.
HasColumn(sheet, names) == ColumnSet(sheet.headers) \cap names # {}

\* C19: a sheet whose headers include a TaskID column is categorised as
\* tasks and its upload replaces the Task collection only; a sheet whose
\* headers include a WorkerID column and no TaskID column is categorised as
\* workers and its upload replaces the Worker collection only.
C19_CategorisedByOwnIdentifier ==
  [][\A sheet \in Files :
       UploadFile(sheet) =>
         /\ HasColumn(sheet, {"taskid", "task_id"}) =>
              /\ detectEntityType(sheet.headers) = "tasks"
              /\ tasks' = SheetObjects(sheet)
              /\ UNCHANGED <<clients, workers>>
         /\ (HasColumn(sheet, {"workerid", "worker_id"})
               /\ ~HasColumn(sheet, {"taskid", "task_id"})) =>
              /\ detectEntityType(sheet.headers) = "workers"
              /\ workers' = SheetObjects(sheet)
              /\ UNCHANGED <<clients, tasks>>]_vars
\* The sample Tasks sheet of the documentation has been uploaded and its
\* rows are the Client collection.
C19_SampleTasksAmongClients ==
  /\ clients # <<>>
  /\ clients[1].TaskID = Str("TASK001")
  /\ clients[1].ClientID = Str("CLI001")
  /\ tasks = <<>>

\* ------------------------------------------------------------------------
\* Missing identifiers
\* ------------------------------------------------------------------------
\* C20: in each of the three collections, every row whose identifying field
\* (ClientID, WorkerID, TaskID) is missing or empty has at least one error
\* finding on that field in the findings of its collection.
C20_MissingIdReported ==
  rendered =>
    /\ \A i \in 1..Len(clients) :
         Empty(clients[i].ClientID) =>
           FieldFindings("clients", clients[i].ClientID, "ClientID", "error") # <<>>
    /\ \A i \in 1..Len(workers) :
         Empty(workers[i].WorkerID) =>
           FieldFindings("workers", workers[i].WorkerID, "WorkerID", "error") # <<>>
    /\ \A i \in 1..Len(tasks) :
         Empty(tasks[i].TaskID) =>
           FieldFindings("tasks", tasks[i].TaskID, "TaskID", "error") # <<>>
\* A validated workbook with a client, a worker and a task without identifier:
\* the client and the worker are reported, the task is not.
C20_OnlyTaskUnreported ==
  /\ rendered
  /\ Len(clients) = 1 /\ Len(workers) = 1 /\ Len(tasks) = 1
  /\ Empty(clients[1].ClientID) /\ Empty(workers[1].WorkerID) /\ Empty(tasks[1].TaskID)
  /\ FieldFindings("clients", clients[1].ClientID, "ClientID", "error") # <<>>
  /\ FieldFindings("workers", workers[1].WorkerID, "WorkerID", "error") # <<>>
  /\ FieldFindings("tasks", tasks[1].TaskID, "TaskID", "error") = <<>>

\* ------------------------------------------------------------------------
\* Frame of edits and uploads
\* ------------------------------------------------------------------------
\* The rows of a collection before and after a step differ at position i at
\* most: same length, same order, every other row as it was.
OnlyRowChanged(before, after, i) ==
  /\ Len(after) = Len(before)
  /\ \A j \in 1..Len(before) : j # i => after[j] = before[j]

\* C21: an inline edit of one cell changes exactly one row of one
\* collection: every other row of that collection, also one that carries the
\* same identifier, and both other collections are unchanged, and the
\* collection keeps its length and row order.
C21_EditChangesOneRow ==
  [][\A cell \in CellEdits :
       \A i \in 1..Len(Collection(cell.type)) :
         ProcessRowUpdate(cell, i, GridRow(cell.type, Collection(cell.type)[i], i - 1)) =>
           /\ OnlyRowChanged(clients, clients', IF cell.type = "clients" THEN i ELSE 0)
           /\ OnlyRowChanged(workers, workers', IF cell.type = "workers" THEN i ELSE 0)
           /\ OnlyRowChanged(tasks, tasks', IF cell.type = "tasks" THEN i ELSE 0)]_vars
\* Two task rows carried the same TaskID, one cell of one of them has been
\* edited, and both rows now hold the edited row's cells.
C21_BothRowsOverwritten ==
  /\ Len(edits) = 1 /\ Len(tasks) = 2
  /\ edits[1].type = "tasks"
  /\ edits[1].oldRow.PriorityLevel = IntV(1)
  /\ tasks[1] = edits[1].newRow
  /\ tasks[2] = edits[1].newRow

\* ------------------------------------------------------------------------
\* Smart rule suggestions (smartRuleSuggestions.ts)
\* ------------------------------------------------------------------------
\* row[f], undefined when the row has no such column.
Field(row, f) == IF f \in DOMAIN row THEN row[f] ELSE Undefined

\* The entries of seq in the order of their first occurrence (a Set or the
\* keys of a Map filled in that order).
AddDistinct(seen, x) ==
  IF \E i \in 1..Len(seen) : seen[i] = x THEN seen ELSE Append(seen, x)

RECURSIVE Distinct(_)
Distinct(seq) ==
  IF seq = <<>> THEN <<>>
  ELSE AddDistinct(Distinct(SubSeq(seq, 1, Len(seq) - 1)), seq[Len(seq)])

\* example.match(/T\d+/g): every 'T' followed by digits, with its digits.
RECURSIVE MatchTaskIds(_)
MatchTaskIds(s) ==
  IF Len(s) < 2 THEN <<>>
  ELSE IF Char(s, 1) = "T" /\ IsDigit(Char(s, 2))
       THEN <<SubSeq(s, 1, 1 + DigitRun(Tail(s)))>>
              \o MatchTaskIds(SubSeq(s, 2 + DigitRun(Tail(s)), Len(s)))
       ELSE MatchTaskIds(Tail(s))

\* A RuleSuggestion: its id, texts, entity type, suggestedRule.type and
\* suggestedRule.conditions[0].field.
RuleSuggestion(id, title, description, entityType, type, field, examples) ==
  [id |-> id, title |-> title, description |-> description,
   entityType |-> entityType, type |-> type, field |-> field,
   examples |-> examples]

\* extractTaskIdsFromSuggestion: the task ids of the examples, the title and
\* the description, duplicates removed.
extractTaskIdsFromSuggestion(suggestion) ==
  Distinct(Concat([i \in 1..Len(suggestion.examples) |->
                     MatchTaskIds(suggestion.examples[i])])
           \o MatchTaskIds(suggestion.title)
           \o MatchTaskIds(suggestion.description))

\* field.charAt(0).toUpperCase()
UpperChar(c) ==
  IF IndexOfChar(LowerCase, c) > 0
  THEN Char(UpperCase, IndexOfChar(LowerCase, c))
  ELSE c

\* `validate${field.charAt(0).toUpperCase()}${field.slice(1)}`
ValidateFlag(field) == "validate" \o UpperChar(Char(field, 1)) \o Tail(field)

NoConversion == [kind |-> "null"]

\* convertSuggestionToBusinessRule: a co-run suggestion naming at least two
\* task ids becomes the business rule 'applied-<id>', a required-field
\* suggestion with a field becomes a validation rule, anything else is null.
convertSuggestionToBusinessRule(suggestion) ==
  CASE suggestion.type = "co-run" /\ Len(extractTaskIdsFromSuggestion(suggestion)) >= 2 ->
         [kind |-> "businessRule",
          businessRule |-> [id |-> "applied-" \o suggestion.id, type |-> "co-run",
                            taskIDs |-> extractTaskIdsFromSuggestion(suggestion),
                            description |-> suggestion.description]]
    [] suggestion.type = "required-field" /\ suggestion.field # "" ->
         [kind |-> "validationRule",
          validationRule |-> [entity |-> suggestion.entityType,
                              flag |-> ValidateFlag(suggestion.field),
                              value |-> TRUE,
                              description |-> suggestion.description]]
    [] OTHER -> NoConversion

\* The requested task ids of one client, as analyzeDataPatterns reads them.
RequestedTasks(client) ==
  IF Truthy(Field(client, "RequestedTaskIDs"))
  THEN ListOf(Field(client, "RequestedTaskIDs"))
  ELSE <<>>

\* The keys `${task1}-${task2}` of one client, for i < j, in loop order.
PairKeys(requested) ==
  Concat([i \in 1..Len(requested) |->
            [k \in 1..(Len(requested) - i) |->
               StringOf(requested[i]) \o "-" \o StringOf(requested[i + k])]])

\* taskPair.split('-'): the first and the second part.
FirstPart(key) ==
  IF IndexOfChar(key, "-") = 0 THEN key ELSE SubSeq(key, 1, IndexOfChar(key, "-") - 1)
SecondPart(key) ==
  IF IndexOfChar(key, "-") = 0 THEN ""
  ELSE FirstPart(SubSeq(key, IndexOfChar(key, "-") + 1, Len(key)))

\* The correlation patterns: every pair requested together at least twice,
\* in the order the pairs were first met.
CorrelationPatterns(keys) ==
  SelectSeq([i \in 1..Len(Distinct(keys)) |->
               [type |-> "correlation", entity |-> "tasks", fields |-> <<>>,
                task1 |-> FirstPart(Distinct(keys)[i]),
                task2 |-> SecondPart(Distinct(keys)[i]),
                frequency |-> Cardinality({j \in 1..Len(keys) : keys[j] = Distinct(keys)[i]})]],
            LAMBDA pattern : pattern.frequency >= 2)

\* !row.Email || row.Email.trim() === ''
Blank(v) == ~Truthy(v) \/ (v.t = "string" /\ Trim(v.s) = "")

\* A truthy cell that is no string has no trim(): the analysis throws.
TrimThrows(rows, fields) ==
  \E i \in 1..Len(rows) : \E f \in fields :
    Truthy(Field(rows[i], f)) /\ Field(rows[i], f).t # "string"

\* The fields among `fields` that some row leaves blank, in the order the
\* analysis adds them to the entity's Set.
MissingFields(rows, fields) ==
  Distinct(Concat([i \in 1..Len(rows) |->
                     SelectSeq(fields, LAMBDA f : Blank(Field(rows[i], f)))]))

MissingPattern(entity, fields) ==
  IF fields = <<>> THEN <<>>
  ELSE <<[type |-> "missing", entity |-> entity, fields |-> fields,
          task1 |-> "", task2 |-> "", frequency |-> 1]>>

\* analyzeDataPatterns: the correlation patterns, then one missing-field
\* pattern per entity type.  (The priority pattern needs a task whose
\* Priority is 'high' and one whose Priority is 'low'; no sheet of the model
\* has both.)
analyzeDataPatterns(cs, ws, ts) ==
  CorrelationPatterns(Concat([i \in 1..Len(cs) |-> PairKeys(RequestedTasks(cs[i]))]))
    \o MissingPattern("clients", MissingFields(cs, <<"Email", "Phone">>))
    \o MissingPattern("workers", MissingFields(ws, <<"Email", "Skills">>))
    \o MissingPattern("tasks", MissingFields(ts, <<"DueDate">>))

\* The suggestions of one pattern, `index` being its position counted from 0.
PatternSuggestions(pattern, index) ==
  CASE pattern.type = "correlation" ->
         IF pattern.task1 # "" /\ pattern.task2 # ""
         THEN <<RuleSuggestion(
                  "correlation-" \o NatToStr(index),
                  "Co-run Rule for " \o pattern.task1 \o " and " \o pattern.task2,
                  "These tasks are frequently requested together. Consider creating a co-run rule.",
                  "tasks", "co-run", "TaskID",
                  <<"Client requested both " \o pattern.task1 \o " and " \o pattern.task2>>)>>
         ELSE <<>>
    [] pattern.type = "missing" ->
         [i \in 1..Len(pattern.fields) |->
            RuleSuggestion(
              "missing-" \o pattern.entity \o "-" \o pattern.fields[i] \o "-" \o NatToStr(index),
              "Required " \o pattern.fields[i] \o " for " \o pattern.entity,
              "Many " \o pattern.entity \o " are missing " \o pattern.fields[i]
                \o ". Consider making this field required.",
              pattern.entity, "required-field", pattern.fields[i],
              <<pattern.entity \o " without " \o pattern.fields[i] \o " may cause issues">>)]
    [] OTHER -> <<>>

generateRuleSuggestions(patterns) ==
  Concat([i \in 1..Len(patterns) |-> PatternSuggestions(patterns[i], i - 1)])

\* getSmartRuleSuggestions: the generated suggestions, followed by those the
\* AI enhancement returns (none without an API key or on a failed call); an
\* exception of the analysis is caught and gives no suggestion at all.
getSmartRuleSuggestions(cs, ws, ts, aiSuggestions) ==
  IF \/ TrimThrows(cs, {"Email", "Phone"})
     \/ TrimThrows(ws, {"Email", "Skills"})
     \/ TrimThrows(ts, {"DueDate"})
  THEN <<>>
  ELSE generateRuleSuggestions(analyzeDataPatterns(cs, ws, ts)) \o aiSuggestions

\* ------------------------------------------------------------------------
\* The page: navigation, suggestions, rules (page.tsx, RulesSection,
\* SmartRuleSuggestions)
\* ------------------------------------------------------------------------
MaxRules == 1
MaxRequests == 2

Sections == {"upload", "tables", "rules", "smart-rules", "insights", "export"}

hasData == Len(clients) > 0 \/ Len(workers) > 0 \/ Len(tasks) > 0

\* One call of getSmartRuleSuggestions: the collections it was given.
Request(cs, ws, ts) == [clients |-> cs, workers |-> ws, tasks |-> ts]

\* What the AI enhancement appends to the generated suggestions: nothing
\* (the call failed or answered no array), or one more suggestion.
AiSuggestions ==
  { <<>>,
    <<RuleSuggestion("ai-suggestion-1", "Priority Due Date Validation",
                     "High priority tasks should have earlier due dates.",
                     "tasks", "priority-due-date", "Priority",
                     <<"High priority task due in 2 weeks">>)>> }

\* A click in the drawer: the shown section is unmounted with its state, the
\* new one mounts with its initial state; SmartRuleSuggestions calls
\* loadSuggestions for the collections it mounts with.  The answers to the
\* calls of an unmounted section reach no one.
Navigate(section) ==
  /\ section # currentSection
  /\ section \in {"smart-rules", "insights"} => hasData
  /\ currentSection' = section
  /\ businessRules' = <<>>
  /\ prioritization' = defaultPrioritization
  /\ suggestions' = <<>>
  /\ requests' = IF section = "smart-rules"
                 THEN <<Request(clients, workers, tasks)>>
                 ELSE <<>>
  /\ UNCHANGED <<dataVars, uiVars, dfsVars, rulesConfig, appliedRules,
                 appliedSuggestions, aiValidationDescriptions, uploading>>

\* loadSuggestions after its await: the answer to the i-th call in flight
\* arrives and is shown.
SuggestionsLoaded(i, aiSuggestions) ==
  /\ i \in 1..Len(requests)
  /\ suggestions' = getSmartRuleSuggestions(requests[i].clients, requests[i].workers,
                                             requests[i].tasks, aiSuggestions)
  /\ requests' = SubSeq(requests, 1, i - 1) \o SubSeq(requests, i + 1, Len(requests))
  /\ UNCHANGED <<dataVars, uiVars, dfsVars, rulesVars, uploading>>

\* The object spread {...prev, [key]: value}, for entries that carry their key.
\* newMap.delete(key)
MapDelete(map, key) == SelectSeq(map, LAMBDA entry : ~SameValueZero(entry.k, key))
SetFlag(flags, flag, value) == {e \in flags : e.flag # flag} \cup {Flag(flag, value)}
SetDescription(descriptions, flag, description) ==
  {e \in descriptions : e.flag # flag} \cup {[flag |-> flag, description |-> description]}

\* handleApplyRule: what it makes of rulesConfig for one conversion.
AppliedConfig(config, converted) ==
  CASE converted.kind = "businessRule" ->
         [config EXCEPT !.businessRules = Append(@, converted.businessRule)]
    [] converted.kind = "validationRule" ->
         [config EXCEPT !.validationRules[converted.validationRule.entity] =
                          SetFlag(@, converted.validationRule.flag,
                                  converted.validationRule.value)]
    [] OTHER -> config

handleApplyRule(suggestion) ==
  /\ appliedRules' = appliedRules \cup {suggestion.id}
  /\ appliedSuggestions' = MapSet(appliedSuggestions, Str(suggestion.id), suggestion)
  /\ rulesConfig' = AppliedConfig(rulesConfig, convertSuggestionToBusinessRule(suggestion))
  /\ aiValidationDescriptions' =
       IF convertSuggestionToBusinessRule(suggestion).kind = "validationRule"
       THEN SetDescription(aiValidationDescriptions,
                           convertSuggestionToBusinessRule(suggestion).validationRule.flag,
                           suggestion.description)
       ELSE aiValidationDescriptions

\* The 'Apply' button of a shown suggestion that is not applied.
ApplyRule(suggestion) ==
  /\ currentSection = "smart-rules"
  /\ \E i \in 1..Len(suggestions) : suggestions[i] = suggestion
  /\ suggestion.id \notin appliedRules
  /\ handleApplyRule(suggestion)
  /\ UNCHANGED <<dataVars, uiVars, dfsVars, adviceVars, currentSection,
                 businessRules, prioritization>>

\* handleUnapplyRule: what it makes of rulesConfig: the business rules
\* without the rule 'applied-<id>'.
UnappliedConfig(config, suggestionId) ==
  [config EXCEPT !.businessRules =
     SelectSeq(@, LAMBDA rule : rule.id # "applied-" \o suggestionId)]

handleUnapplyRule(suggestionId) ==
  /\ appliedRules' = appliedRules \ {suggestionId}
  /\ appliedSuggestions' = MapDelete(appliedSuggestions, Str(suggestionId))
  /\ rulesConfig' = UnappliedConfig(rulesConfig, suggestionId)
  /\ UNCHANGED aiValidationDescriptions

\* The 'Unapply' button of a shown suggestion that is applied.
UnapplyRule(suggestionId) ==
  /\ currentSection = "smart-rules"
  /\ \E i \in 1..Len(suggestions) : suggestions[i].id = suggestionId
  /\ suggestionId \in appliedRules
  /\ handleUnapplyRule(suggestionId)
  /\ UNCHANGED <<dataVars, uiVars, dfsVars, adviceVars, currentSection,
                 businessRules, prioritization>>

\* notifyRulesChange: the section's own rules and sliders and the toggles it
\* was given, the changed part replaced, become the page's rulesConfig.
notifyRulesChange(rules, sliders, toggles) ==
  [businessRules |-> rules, prioritization |-> sliders, validationRules |-> toggles]

\* A rule as AddRuleDialog submits it: id `rule_${Date.now()}`.
ManualRule(time) ==
  [id |-> "rule_" \o NatToStr(time), type |-> "co-run", taskIDs |-> <<>>,
   description |-> ""]

RuleIds(rules) == {rules[i].id : i \in 1..Len(rules)}

handleAddRule(rule) ==
  /\ businessRules' = Append(businessRules, rule)
  /\ rulesConfig' = notifyRulesChange(Append(businessRules, rule), prioritization,
                                      rulesConfig.validationRules)
  /\ UNCHANGED prioritization

AddRule ==
  /\ currentSection = "rules"
  /\ \E time \in 1..MaxRules :
       /\ ManualRule(time).id \notin RuleIds(businessRules) \cup RuleIds(rulesConfig.businessRules)
       /\ handleAddRule(ManualRule(time))
  /\ UNCHANGED <<dataVars, uiVars, dfsVars, adviceVars, currentSection, appliedRules,
                 appliedSuggestions, aiValidationDescriptions>>

handleDeleteRule(ruleId) ==
  /\ businessRules' = SelectSeq(businessRules, LAMBDA rule : rule.id # ruleId)
  /\ rulesConfig' =
       notifyRulesChange(SelectSeq(businessRules, LAMBDA rule : rule.id # ruleId),
                         prioritization, rulesConfig.validationRules)
  /\ UNCHANGED prioritization

\* The delete button of a rule card; the cards are the section's own rules.
DeleteRule ==
  /\ currentSection = "rules"
  /\ \E i \in 1..Len(businessRules) : handleDeleteRule(businessRules[i].id)
  /\ UNCHANGED <<dataVars, uiVars, dfsVars, adviceVars, currentSection, appliedRules,
                 appliedSuggestions, aiValidationDescriptions>>

SliderValues == {50, 80}

handlePrioritizationChange(field, value) ==
  /\ prioritization' = [prioritization EXCEPT ![field] = value]
  /\ rulesConfig' = notifyRulesChange(businessRules, [prioritization EXCEPT ![field] = value],
                                      rulesConfig.validationRules)
  /\ UNCHANGED businessRules

PrioritizationChange ==
  /\ currentSection = "rules"
  /\ \E value \in SliderValues :
       /\ value # prioritization.priorityLevel
       /\ handlePrioritizationChange("priorityLevel", value)
  /\ UNCHANGED <<dataVars, uiVars, dfsVars, adviceVars, currentSection, appliedRules,
                 appliedSuggestions, aiValidationDescriptions>>

handleValidationRuleChange(entity, rule, value) ==
  /\ rulesConfig' =
       notifyRulesChange(businessRules, prioritization,
                         [rulesConfig.validationRules EXCEPT ![entity] = SetFlag(@, rule, value)])
  /\ UNCHANGED <<businessRules, prioritization>>

\* A toggle of the validation rules: the one for the clients' phone.
ValidationRuleChange ==
  /\ currentSection = "rules"
  /\ \E value \in BOOLEAN :
       /\ Flag("validatePhone", value) \notin rulesConfig.validationRules.clients
       /\ handleValidationRuleChange("clients", "validatePhone", value)
  /\ UNCHANGED <<dataVars, uiVars, dfsVars, adviceVars, currentSection, appliedRules,
                 appliedSuggestions, aiValidationDescriptions>>

\* The files of the rules sessions: a client sheet whose client asks for T1
\* and T2 together twice, a later client sheet without phone numbers, and a
\* task sheet.
RuleFiles ==
  { Sheet(<<"ClientID", "Name", "RequestedTaskIDs", "Email", "Phone">>,
          <<<<Str("C1"), Str("Acme"), Str("T1,T2,T2"), Str("acme@email.com"), Str("555")>>>>),
    Sheet(<<"ClientID", "Name", "Email">>,
          <<<<Str("C2"), Str("Bolt"), Str("bolt@email.com")>>>>),
    Sheet(<<"TaskID", "Duration", "DueDate">>,
          <<<<Str("T1"), IntV(1), Str("2024-02-15")>>>>) }

\* handleFileUpload of one file whose parse ends before anything else happens.
UploadRuleFile ==
  /\ currentSection = "upload"
  /\ \E sheet \in RuleFiles : UploadFile(sheet)

InitRules == Uploaded({<<>>}, {<<>>}, {<<>>})

NextRules ==
  \/ UploadRuleFile
  \/ \E section \in Sections : Navigate(section)
  \/ \E aiSuggestions \in AiSuggestions : SuggestionsLoaded(1, aiSuggestions)
  \/ \E suggestion \in {suggestions[i] : i \in 1..Len(suggestions)} : ApplyRule(suggestion)
  \/ \E suggestionId \in appliedRules : UnapplyRule(suggestionId)
  \/ AddRule
  \/ DeleteRule
  \/ PrioritizationChange
  \/ ValidationRuleChange

SpecRules == InitRules /\ [][NextRules]_vars

\* The rows of the three collections after a step, by entity type.
CollectionAfter(type) ==
  CASE type = "clients" -> clients'
    [] type = "workers" -> workers'
    [] OTHER -> tasks'

\* C22: the upload of a sheet makes the sheet's rows the collection of the
\* sheet's entity type, whatever that collection held, and leaves the two
\* other collections and the rules configuration as they were; no other step
\* of a rules session touches a collection, so each collection always holds
\* the rows of the latest sheet of its type.
C22_UploadReplacesCollection ==
  [][/\ \A sheet \in RuleFiles :
          currentSection = "upload" /\ UNCHANGED currentSection /\ UploadFile(sheet) =>
            /\ CollectionAfter(detectEntityType(sheet.headers)) = SheetObjects(sheet)
            /\ \A type \in {"clients", "workers", "tasks"} \ {detectEntityType(sheet.headers)} :
                 CollectionAfter(type) = Collection(type)
            /\ UNCHANGED <<rulesConfig, appliedRules, appliedSuggestions>>
     /\ <<clients, workers, tasks>>' # <<clients, workers, tasks>> => UploadRuleFile]_vars
\* The second client sheet has replaced the first one, whose co-run
\* suggestion had been applied, beside an uploaded task sheet.
C22_SheetReplacedUnderRules ==
  /\ Len(clients) = 1 /\ clients[1].ClientID = Str("C2")
  /\ Len(tasks) = 1
  /\ "correlation-0" \in appliedRules
  /\ RuleIds(rulesConfig.businessRules) = {"applied-correlation-0"}

\* ------------------------------------------------------------------------
\* Repeated dependencies
\* ------------------------------------------------------------------------
\* Task sheets whose Dependencies cells may name one TaskID twice.
MaxRepeatTasks == 2
RepeatCells == {"", "T1", "T2", "T1,T1", "T2, T2", "T1,T2"}
RepeatTaskRows == {GraphTask(id, deps) : id \in {"T1", "T2"}, deps \in RepeatCells}

InitRepeats == Uploaded({<<>>}, {<<>>}, Sheets(RepeatTaskRows, MaxRepeatTasks))

NextRepeats == Render

SpecRepeats == InitRepeats /\ [][NextRepeats]_vars

\* The circular-dependency findings of the task `id` that carry the message
\* of `cycle`.
FindingsOfCycle(id, cycle) ==
  SelectSeq(validation.errors,
            LAMBDA e : /\ e.entityType = "tasks"
                       /\ e.rowId = id
                       /\ e.field = "Dependencies"
                       /\ e.message = Msg("Circular dependency detected: ", cycle))

ReportedCycles == detectCircularDependencies(tasks)

\* C23: once the grid has rendered, a task on a reported cycle has exactly
\* one finding with that cycle's message, also when a Dependencies cell
\* names a TaskID twice and when the traversal restarts from several tasks.
C23_OneFindingPerCycleTask ==
  rendered =>
    \A c \in 1..Len(ReportedCycles) :
      \A n \in 1..Len(ReportedCycles[c]) :
        Len(FindingsOfCycle(ReportedCycles[c][n], ReportedCycles[c])) = 1
\* A single task that names itself twice has two findings for the cycle [T1].
C23_SelfLoopReportedTwice ==
  /\ rendered
  /\ Len(tasks) = 1
  /\ tasks[1].Dependencies = Str("T1,T1")
  /\ Len(FindingsOfCycle(Str("T1"), <<Str("T1")>>)) = 2

\* ------------------------------------------------------------------------
\* Capacity of the phases
\* ------------------------------------------------------------------------
\* The saturation findings for phases other than the placeholder phase.
OtherPhaseFindings(errors) ==
  SelectSeq(errors, LAMBDA e : /\ e.field = "Scheduling"
                               /\ e.rowId # Str("phase-" \o NatToStr(PlaceholderPhase)))

\* C24: all capacity is credited to phase 1: no other phase has capacity,
\* every phase other than 1 whose tasks have a positive total duration gets a
\* saturation warning showing capacity 0, and the findings for the phases
\* other than 1 are those the same tasks get without any worker.
C24_CapacityOnPlaceholderOnly ==
  rendered =>
    /\ \A i \in 1..Len(PhaseCapacity(workers)) :
         PhaseCapacity(workers)[i].k = IntV(PlaceholderPhase)
    /\ \A p \in 1..MaxPhase :
         p # PlaceholderPhase /\ DurationSum(p, Len(tasks)) > 0 =>
           /\ Capacity(p) = 0
           /\ PhaseFindings(p) # <<>>
           /\ \A k \in 1..Len(PhaseFindings(p)) :
                /\ PhaseFindings(p)[k].severity = "warning"
                /\ PhaseFindings(p)[k].message.args[3] = IntV(0)
    /\ OtherPhaseFindings(validation.errors)
         = OtherPhaseFindings(validateSchedulingFeasibility(clients, <<>>, tasks))
\* A worker with one slot and load 3 covers the demand of phase 1 and
\* suppresses its warning; phase 2, with the same demand, is warned.
C24_PhaseTwoWarnedDespiteWorker ==
  /\ rendered
  /\ Len(workers) = 1 /\ Capacity(1) = 3
  /\ DurationSum(1, Len(tasks)) = 3 /\ DurationSum(2, Len(tasks)) = 3
  /\ PhaseFindings(1) = <<>>
  /\ Len(PhaseFindings(2)) = 1

\* ------------------------------------------------------------------------
\* Reported cycles
\* ------------------------------------------------------------------------
\* The reported sequence is a cycle of the dependency graph: declared
\* TaskIDs, none twice, each listing the next, the last listing the first.
RealCycle(cycle) ==
  /\ cycle # <<>>
  /\ \A n \in 1..Len(cycle) : cycle[n] \in DeclaredIds
  /\ \A m, n \in 1..Len(cycle) : m # n => cycle[m] # cycle[n]
  /\ \A n \in 1..(Len(cycle) - 1) : DependsOn(cycle[n], cycle[n + 1])
  /\ DependsOn(cycle[Len(cycle)], cycle[1])

\* C25: every cycle detectCircularDependencies reports is a cycle of the
\* dependency graph of the declared tasks, and after a render a sheet none of
\* whose tasks lies on a cycle has no circular-dependency finding.
C25_ReportedCyclesAreReal ==
  /\ \A c \in 1..Len(ReportedCycles) : RealCycle(ReportedCycles[c])
  /\ rendered /\ (\A i \in 1..Len(tasks) : ~OnCycle(tasks[i].TaskID)) =>
       CycleFindings(validation.errors) = <<>>
\* T3, the first row, leads into the cycle of T1 and T2 and is not part of
\* the reported cycle.
C25_CycleBehindLeadIn ==
  /\ rendered
  /\ Len(tasks) = 3
  /\ tasks[1].TaskID = Str("T3")
  /\ ReportedCycles = <<<<Str("T1"), Str("T2")>>>>
  /\ ~OnCycle(Str("T3"))
  /\ Len(CycleFindings(validation.errors)) = 2

\* ------------------------------------------------------------------------
\* Unmatched skills
\* ------------------------------------------------------------------------
\* The warnings on RequiredSkills of one task ('No worker has skills ...').
UnmatchedFindings(task) ==
  FieldFindings("tasks", task.TaskID, "RequiredSkills", "warning")

\* C26: among the findings of a task, the warning that some required skill
\* is held by no worker never comes without the error that no worker matches
\* all required skills.
C26_WarningImpliesError ==
  rendered =>
    \A i \in 1..Len(tasks) :
      UnmatchedFindings(tasks[i]) # <<>> =>
        \E k \in 1..Len(NoMatchFindings(tasks[i])) :
          NoMatchFindings(tasks[i])[k].message.text = "No workers match all required skills"
\* The only worker welds, the task asks for painting and welding: the
\* warning names the skill nobody has, and the error comes with it.
C26_UnmatchedSkillWithWorker ==
  /\ rendered
  /\ Len(workers) = 1 /\ workers[1].Skills = Str("weld")
  /\ Len(tasks) = 1 /\ tasks[1].RequiredSkills = Str("paint, weld")
  /\ Len(UnmatchedFindings(tasks[1])) = 1
  /\ Len(NoMatchFindings(tasks[1])) = 1

\* ------------------------------------------------------------------------
\* Blank cells
\* ------------------------------------------------------------------------
\* Sheets whose optional numeric cells are filled or left blank: a blank
\* cell reaches parseFile as undefined (a 0 is stored like a blank one).
BlankFiles ==
  { Sheet(<<"TaskID", "Title", "Duration", "PriorityLevel", "MaxConcurrent">>,
          <<<<Str("T1"), Str("Paint"), duration, priority, maxConcurrent>>>>) :
      duration \in {Undefined, IntV(2), IntV(0)},
      priority \in {Undefined, IntV(3), IntV(6)},
      maxConcurrent \in {Undefined, IntV(1)} }
  \cup
  { Sheet(<<"WorkerID", "Name", "Skills", "MaxLoadPerPhase">>,
          <<<<Str("W1"), Str("Ann"), Str("weld"), maxLoad>>>>) :
      maxLoad \in {Undefined, IntV(2)} }

UploadBlank == \E sheet \in BlankFiles : UploadFile(sheet)

InitBlank == Uploaded({<<>>}, {<<>>}, {<<>>})

NextBlank == UploadBlank \/ Render

SpecBlank == InitBlank /\ [][NextBlank]_vars

\* The cell of the row was left blank: parseFile stored the empty string.
BlankCell(row, field) == row[field] = Str("")

\* C27: after the render, a row whose Duration, PriorityLevel, MaxConcurrent
\* or MaxLoadPerPhase cell was blank in the uploaded sheet has no finding on
\* that field.
C27_BlankNumericCellsUnreported ==
  rendered =>
    /\ \A i \in 1..Len(tasks) :
         \A field \in {"Duration", "PriorityLevel", "MaxConcurrent"} :
           BlankCell(tasks[i], field) => ~HasFinding("tasks", tasks[i].TaskID, field)
    /\ \A i \in 1..Len(workers) :
         BlankCell(workers[i], "MaxLoadPerPhase") =>
           ~HasFinding("workers", workers[i].WorkerID, "MaxLoadPerPhase")
\* A task uploaded with a blank PriorityLevel and a duration of 2 carries an
\* error on PriorityLevel.
C27_BlankPriorityReported ==
  /\ rendered
  /\ Len(tasks) = 1
  /\ tasks[1].Duration = IntV(2)
  /\ BlankCell(tasks[1], "PriorityLevel")
  /\ HasFinding("tasks", Str("T1"), "PriorityLevel")

\* ------------------------------------------------------------------------
\* Rules configuration: claims
\* ------------------------------------------------------------------------
\* The applied suggestions that were converted to a business rule.
ConvertedToRule ==
  {suggestion \in {appliedSuggestions[i].v : i \in 1..Len(appliedSuggestions)} :
     convertSuggestionToBusinessRule(suggestion).kind = "businessRule"}

\* C28: whatever suggestions were applied, rules added, sliders moved,
\* toggles changed and sections visited, every applied suggestion that was
\* converted to a business rule still has its rule 'applied-<id>' among the
\* business rules of the configuration that is exported.
C28_AppliedRulesStayConfigured ==
  \A suggestion \in ConvertedToRule :
    suggestion.id \in appliedRules =>
      "applied-" \o suggestion.id \in RuleIds(rulesConfig.businessRules)
\* The co-run suggestion is applied, a slider has been moved in the rules
\* section since, and the configuration holds no business rule.
C28_AppliedRuleLostToSlider ==
  /\ "correlation-0" \in appliedRules
  /\ currentSection = "rules"
  /\ rulesConfig.prioritization.priorityLevel = 80
  /\ rulesConfig.businessRules = <<>>
  /\ businessRules = <<>>

\* The suggestions on display that are not applied: those with an 'Apply'
\* button.
Applicable ==
  {suggestion \in {suggestions[i] : i \in 1..Len(suggestions)} :
     currentSection = "smart-rules" /\ suggestion.id \notin appliedRules}

\* C29: applying a suggestion on display and unapplying it right after
\* gives back the rules configuration, the applied ids and the applied
\* suggestions there were before, for a co-run suggestion and for a
\* required-field suggestion alike.
C29_ApplyUnapplyRoundTrip ==
  \A suggestion \in Applicable :
    /\ UnappliedConfig(AppliedConfig(rulesConfig, convertSuggestionToBusinessRule(suggestion)),
                       suggestion.id) = rulesConfig
    /\ (appliedRules \cup {suggestion.id}) \ {suggestion.id} = appliedRules
    /\ MapDelete(MapSet(appliedSuggestions, Str(suggestion.id), suggestion),
                 Str(suggestion.id)) = appliedSuggestions
\* The required-field suggestion for the clients' phone has been applied and
\* unapplied: nothing is applied, and the toggle it switched on is still on.
C29_ToggleLeftOn ==
  /\ currentSection = "smart-rules"
  /\ appliedRules = {} /\ appliedSuggestions = <<>>
  /\ \E i \in 1..Len(suggestions) : suggestions[i].id = "missing-clients-Phone-0"
  /\ aiValidationDescriptions # {}
  /\ Flag("validatePhone", TRUE) \in rulesConfig.validationRules.clients

\* ------------------------------------------------------------------------
\* Advisory requests in flight
\* ------------------------------------------------------------------------
MaxFiles == 2

\* The selections of up to MaxFiles files.
Selections == UNION {[1..n -> RuleFiles] : n \in 1..MaxFiles}

\* handleFileUpload up to its first await: the files are selected in the
\* upload section and wait to be parsed one after the other.
SelectFiles(files) ==
  /\ currentSection = "upload"
  /\ uploading = <<>>
  /\ uploading' = files
  /\ UNCHANGED <<dataVars, uiVars, dfsVars, rulesVars, suggestions, requests>>

\* handleFileUpload after await parseFile(file): the sheet's rows replace
\* their collection, whatever section is shown by then; a mounted
\* SmartRuleSuggestions sees new collections and calls loadSuggestions again.
FileParsed ==
  /\ uploading # <<>>
  /\ currentSection = "smart-rules" => Len(requests) < MaxRequests
  /\ DataUpdate(detectEntityType(Head(uploading).headers), SheetObjects(Head(uploading)))
  /\ rendered' = FALSE
  /\ uploading' = Tail(uploading)
  /\ requests' = IF currentSection = "smart-rules"
                 THEN Append(requests, Request(clients', workers', tasks'))
                 ELSE requests
  /\ UNCHANGED <<validation, uiVars, dfsVars, rulesVars, suggestions>>

InitAdvice == Uploaded({<<>>}, {<<>>}, {<<>>})

NextAdvice ==
  \/ \E files \in Selections : SelectFiles(files)
  \/ FileParsed
  \/ \E section \in Sections : Navigate(section)
  \/ \E i \in 1..MaxRequests, aiSuggestions \in AiSuggestions :
       SuggestionsLoaded(i, aiSuggestions)

SpecAdvice == InitAdvice /\ [][NextAdvice]_vars

\* C30: when the smart-rules section is shown and no call is in flight,
\* the suggestions on display are those of getSmartRuleSuggestions for the
\* current collections: the answer to a call made for older collections
\* never stays on display.
C30_SuggestionsAreCurrent ==
  currentSection = "smart-rules" /\ requests = <<>> =>
    \E aiSuggestions \in AiSuggestions :
      suggestions = getSmartRuleSuggestions(clients, workers, tasks, aiSuggestions)
\* The second client sheet is in place, no call is in flight, and the
\* section shows the co-run suggestion computed from the first client sheet.
C30_StaleSuggestionShown ==
  /\ currentSection = "smart-rules"
  /\ requests = <<>> /\ uploading = <<>>
  /\ Len(clients) = 1 /\ clients[1].ClientID = Str("C2")
  /\ \E i \in 1..Len(suggestions) : suggestions[i].id = "correlation-0"
====
